---- MODULE Spec2Model ----
(***************************************************************************)
(* ACPI / power-management controller of 86Box (src/src/acpi.c).           *)
(*                                                                         *)
(* Registers are modelled as the set of their set bit positions: the C     *)
(* operators &, |, ~ and << become intersection, union, difference and a   *)
(* shift of positions, exactly and without the 32-bit limit of TLC's ints. *)
(* A device is one record (the acpi_t of the code plus the lines and       *)
(* timers it drives); every C function is an operator from device to       *)
(* device, and every entry point of the file is one action.                *)
(***************************************************************************)
EXTENDS Integers, Sequences, FiniteSets, TLC

VARIABLES dev, pre, last, nops, tsc, cpu_to_acpi, in_smm, reads

vars == <<dev, pre, last, nops, tsc, cpu_to_acpi, in_smm, reads>>

(***************************************************************************)
(* Bit-set arithmetic                                                      *)
(***************************************************************************)
\* the set of bit positions of a constant below 2^31
Bits(n) == {i \in 0..30 : (n \div 2^i) % 2 = 1}

\* val << k
Shl(S, k) == {b + k : b \in S}

\* truncation to an unsigned type of w bits
Trunc(S, w) == {b \in S : b < w}

\* the numeric value of a byte
ByteVal(S) == LET RECURSIVE Sum(_)
                  Sum(i) == IF i > 7 THEN 0
                            ELSE (IF i \in S THEN 2^i ELSE 0) + Sum(i + 1)
              IN Sum(0)

BYTE == 0..7

\* old & ~((val << shift) & mask)
\* a status write that forgets the clearable mask
ClearUnmasked(old, val, shift, mask) == old \ Shl(val, shift)

ClearBits(old, val, shift, mask) == old \ (Shl(val, shift) \cap mask)

\* ((old & ~(0xff << shift)) | (val << shift)) & mask
\* a register write that forgets the valid-bits mask
MergeUnmasked(old, val, shift, mask) == (old \ Shl(BYTE, shift)) \cup Shl(val, shift)

MergeByte(old, val, shift, mask) ==
    ((old \ Shl(BYTE, shift)) \cup Shl(val, shift)) \cap mask

shift16(addr) == (addr % 2) * 8
shift32(addr) == (addr % 4) * 8

(***************************************************************************)
(* Constants of include/86box/acpi.h                                       *)
(***************************************************************************)
VEN_ALI        == "ALI"
VEN_INTEL      == "INTEL"
VEN_INTEL_ICH2 == "INTEL_ICH2"
VEN_SMC        == "SMC"
VEN_VIA        == "VIA"
VEN_VIA_596B   == "VIA_596B"

Vendors == {VEN_ALI, VEN_INTEL, VEN_INTEL_ICH2, VEN_SMC, VEN_VIA, VEN_VIA_596B}

TMROF_EN   == {0}
GBL_EN     == {5}
PWRBTN_EN  == {8}
RTC_EN     == {10}
TMROF_STS  == {0}
BM_STS     == {4}

SUS_POWER_OFF   == "SUS_POWER_OFF"
SUS_SUSPEND     == "SUS_SUSPEND"
SUS_NVR         == "SUS_NVR"
SUS_RESET_CPU   == "SUS_RESET_CPU"
SUS_RESET_CACHE == "SUS_RESET_CACHE"
SUS_RESET_PCI   == "SUS_RESET_PCI"

(***************************************************************************)
(* Bounds of the exploration                                               *)
(***************************************************************************)
\* host operations (guest accesses, configuration and platform calls) per run
MaxOps == 2
\* reference ticks one Tick step advances the time stamp counter by
TscStep == 5000000

(***************************************************************************)
(* External collaborators: each call is logged in dev.calls, in order      *)
(***************************************************************************)
Call(d, c) == [d EXCEPT !.calls = Append(@, c)]

Called(d, name) == \E i \in 1..Len(d.calls) : d.calls[i][1] = name

CountCalls(d, name) == Cardinality({i \in 1..Len(d.calls) : d.calls[i][1] = name})

\* the position of the first call of that name, 0 if none
FirstCall(d, name) ==
    IF Called(d, name)
    THEN CHOOSE i \in 1..Len(d.calls) :
            /\ d.calls[i][1] = name
            /\ \A j \in 1..(i - 1) : d.calls[j][1] # name
    ELSE 0

smi_raise(d) == Call(d, <<"smi_raise">>)

plat_power_off(d) == Call(d, <<"plat_power_off">>)

IrqLines == {"INTX", "MIRQ5", "MIRQ_ROUTED"}

\* pci_set_irq / pci_set_mirq and pci_clear_irq / pci_clear_mirq
pci_set_line(d, l)   == Call([d EXCEPT !.irq[l] = TRUE], <<"pci_set", l>>)
pci_clear_line(d, l) == Call([d EXCEPT !.irq[l] = FALSE], <<"pci_clear", l>>)

\* timer_on_auto: a one-shot wake-up after period
timer_on_auto(d, period) ==
    Call([d EXCEPT !.timer = [enabled |-> TRUE, period |-> period]],
         <<"timer_on_auto", period>>)

timer_stop(d) ==
    Call([d EXCEPT !.timer = [enabled |-> FALSE, period |-> @.period]],
         <<"timer_stop">>)

\* timer_set_delay_u64(&dev->resume_timer, usec * TIMER_USEC)
resume_set_delay(d, usec) ==
    Call([d EXCEPT !.resume_timer = [enabled |-> TRUE, delay |-> usec]],
         <<"timer_set_delay_u64", usec>>)

\* a registration of the port dispatch: size ports from base, served by the
\* handlers of the primary ("acpi_reg") or the auxiliary ("acpi_aux_reg") window
Window(base, size, kind) == [base |-> base, size |-> size, kind |-> kind]

\* io_sethandler: one more registration on each of the size ports
io_sethandler(d, base, size, kind) ==
    Call(IF size = 0 THEN d ELSE [d EXCEPT !.io = Append(@, Window(base, size, kind))],
         <<"io_sethandler", base, size, kind>>)

\* io_removehandler: takes one registration of these handlers off each of the
\* size ports, and nothing where there is none
io_removehandler(d, base, size, kind) ==
    LET w == Window(base, size, kind)
        at == {i \in 1..Len(d.io) : d.io[i] = w}
        first == CHOOSE i \in at : \A j \in at : i <= j
        d1 == IF at = {} THEN d
              ELSE [d EXCEPT !.io = SubSeq(@, 1, first - 1) \o SubSeq(@, first + 1, Len(@))]
    IN Call(d1, <<"io_removehandler", base, size, kind>>)

(***************************************************************************)
(* Timer model.  Tick counts are bit sets too (a uint64_t of the code).    *)
(***************************************************************************)
\* S + 2^k on bit sets: the carry runs up to the first clear bit at or above k
AddPow2(S, k) ==
    LET z == CHOOSE i \in k..64 : i \notin S /\ \A j \in k..(i - 1) : j \in S
    IN (S \ (k..(z - 1))) \cup {z}

\* the number held in bits lo .. lo + 23 of S
RECURSIVE LimbSum(_, _, _)
LimbSum(S, lo, i) ==
    IF i >= 24 THEN 0
    ELSE (IF lo + i \in S THEN 2^i ELSE 0) + LimbSum(S, lo, i + 1)

Limb(S, k) == LimbSum(S, 24 * k, 0)

\* the bit set of l0 + l1 * 2^24 + l2 * 2^48, each limb below 2^24
FromLimbs(l0, l1, l2) == Bits(l0) \cup Shl(Bits(l1), 24) \cup Shl(Bits(l2), 48)

\* A + B + c on bit sets, truncated to an unsigned type of w bits (w <= 64)
AddCarry(A, B, c, w) ==
    LET s0 == Limb(A, 0) + Limb(B, 0) + c
        s1 == Limb(A, 1) + Limb(B, 1) + s0 \div 2^24
        s2 == Limb(A, 2) + Limb(B, 2) + s1 \div 2^24
    IN Trunc(FromLimbs(s0 % 2^24, s1 % 2^24, s2 % 2^24), w)

BitAdd(A, B, w) == AddCarry(A, B, 0, w)

\* A - B modulo 2^w: A + ~B + 1
BitSub(A, B, w) == AddCarry(Trunc(A, w), (0..(w - 1)) \ B, 1, w)

\* val >> k
Shr(S, k) == {b - k : b \in {x \in S : x >= k}}

\* S * n for a small natural n (n < 64), kept to 72 bits
MulSmall(S, n) ==
    LET p0 == Limb(S, 0) * n
        p1 == Limb(S, 1) * n + p0 \div 2^24
        p2 == Limb(S, 2) * n + p1 \div 2^24
    IN FromLimbs(p0 % 2^24, p1 % 2^24, p2 % 2^24)

Log2(n) == CHOOSE k \in 0..30 : 2^k = n

\* (uint64_t) (t * ratio): the ratio is num / den with den a power of two and
\* the counts stay far below 2^53, so the double product of the code is exact
\* and its conversion to uint64_t is the floor
ScaleTicks(t, ratio) == Trunc(Shr(MulSmall(t, ratio.num), Log2(ratio.den)), 64)

\* tsc * cpu_to_acpi, truncated to uint64_t
acpi_clock_get == ScaleTicks(tsc, cpu_to_acpi)

\* a timer read that ignores the configured width
timer_get_full_width(d) == Trunc(acpi_clock_get, 32)

acpi_timer_get(d) ==
    IF d.regs.timer32 THEN Trunc(acpi_clock_get, 32) ELSE Trunc(acpi_clock_get, 24)

\* a period that runs to the next wrap of the whole counter
period_to_wrap(timer32, timer) ==
    LET k == IF timer32 THEN 32 ELSE 24
    IN AddPow2((0..(k - 1)) \ Trunc(timer, k), 0)

\* overflow_time = (timer + 2^k) & ~(2^k - 1) with k = 31 or 23; the period is
\* time_to_overflow = overflow_time - timer, in timer ticks (the code scales it
\* by 1000000 / ACPI_TIMER_FREQ to microseconds).  overflow_time is timer with
\* its low k bits cleared plus 2^k, so the difference is 2^k - (timer mod 2^k):
\* the complement of the low k bits, plus one.
overflow_period(timer32, timer) ==
    LET k == IF timer32 THEN 31 ELSE 23
    IN AddPow2((0..(k - 1)) \ Trunc(timer, k), 0)

acpi_get_overflow_period(d) == overflow_period(d.regs.timer32, acpi_clock_get)

\* a re-arm that keeps the delay of the previous arming
timer_update_stale(d, enable) ==
    IF enable THEN timer_on_auto(d, d.timer.period)
    ELSE timer_stop(d)

acpi_timer_update(d, enable) ==
    IF enable THEN timer_on_auto(d, acpi_get_overflow_period(d))
    ELSE timer_stop(d)

(***************************************************************************)
(* Interrupt / SMI router                                                  *)
(***************************************************************************)
\* a router that takes mode 2 for the PCI pin and mode 1 for MIRQ 5
SwappedLine(d) ==
    IF d.irq_mode = 2 THEN "INTX"
    ELSE IF d.irq_mode = 1 THEN "MIRQ5"
    ELSE "MIRQ_ROUTED"

SelectedLine(d) ==
    IF d.irq_mode = 1 THEN "INTX"
    ELSE IF d.irq_mode = 2 THEN "MIRQ5"
    ELSE "MIRQ_ROUTED"

\* an interrupt level that follows the timer overflow alone
sci_level_overflow_only(d) ==
    ((d.regs.pmsts \cap d.regs.pmen) \cap TMROF_EN)
    \cup (IF d.vendor = VEN_SMC THEN d.regs.pmsts \cap BM_STS ELSE {})

sci_level(d) ==
    ((d.regs.pmsts \cap d.regs.pmen)
        \cap (RTC_EN \cup PWRBTN_EN \cup GBL_EN \cup TMROF_EN))
    \cup (IF d.vendor = VEN_SMC THEN d.regs.pmsts \cap BM_STS ELSE {})

\* a re-arm condition that ignores a pending overflow
WantedWhilePending(d) == d.regs.pmen \cap TMROF_EN # {}

TimerWanted(d) == (d.regs.pmen \cap TMROF_EN # {}) /\ (d.regs.pmsts \cap TMROF_STS = {})

\* a router that drives the line as a pulse: it deasserts a line it finds
\* asserted
update_irq_pulse(d) ==
    LET d0 == Call(d, <<"acpi_update_irq">>)
        d1 == IF sci_level(d0) # {} /\ ~d0.irq[SelectedLine(d0)]
              THEN pci_set_line(d0, SelectedLine(d0))
              ELSE pci_clear_line(d0, SelectedLine(d0))
    IN acpi_timer_update(d1, TimerWanted(d1))

acpi_update_irq(d) ==
    LET d0 == Call(d, <<"acpi_update_irq">>)
        d1 == IF sci_level(d0) # {}
              THEN pci_set_line(d0, SelectedLine(d0))
              ELSE pci_clear_line(d0, SelectedLine(d0))
    IN acpi_timer_update(d1, TimerWanted(d1))

\* the SMI router with one of its gates left out: the VIA lock test, the
\* clearing of GLBCTL bit 16 on Intel, or the SMI_EN test on ICH2
raise_smi_without(d, do_smi, lock, pending, smi_en) ==
    LET d0 == Call(d, <<"acpi_raise_smi", do_smi>>)
    IN
    IF 0 \in d0.regs.glbctl
    THEN IF d0.vendor \in {VEN_VIA, VEN_VIA_596B}
         THEN IF ~lock \/ ~d0.regs.smi_lock \/ ~d0.regs.smi_active
              THEN [(IF do_smi # 0 THEN smi_raise(d0) ELSE d0)
                        EXCEPT !.regs.smi_active = TRUE]
              ELSE d0
         ELSE IF d0.vendor \in {VEN_INTEL, VEN_ALI}
         THEN LET d1 == IF do_smi # 0 THEN smi_raise(d0) ELSE d0
              IN IF d1.vendor = VEN_INTEL
                 THEN IF pending THEN [d1 EXCEPT !.regs.glbctl = @ \ {16}] ELSE d1
                 ELSE [d1 EXCEPT !.regs.ali_soft_smi = {0}]
         ELSE IF d0.vendor = VEN_SMC
         THEN IF do_smi # 0 THEN smi_raise(d0) ELSE d0
         ELSE d0
    ELSE IF d0.vendor = VEN_INTEL_ICH2 /\ do_smi # 0
                /\ (~smi_en \/ 0 \in d0.regs.smi_en)
         THEN smi_raise(d0)
         ELSE d0

\* a router that never marks an SMI as active
raise_smi_inactive(d, do_smi) ==
    [raise_smi_without(d, do_smi, TRUE, TRUE, TRUE)
        EXCEPT !.regs.smi_active = d.regs.smi_active]

\* a router that ignores the SMI lock of the VIA profiles
raise_smi_unlocked(d, do_smi) == raise_smi_without(d, do_smi, FALSE, TRUE, TRUE)

\* a router that leaves GLBCTL bit 16 set on Intel
raise_smi_keep_pending(d, do_smi) == raise_smi_without(d, do_smi, TRUE, FALSE, TRUE)

\* a router that ignores SMI_EN bit 0 on ICH2
raise_smi_ungated(d, do_smi) == raise_smi_without(d, do_smi, TRUE, TRUE, FALSE)

acpi_raise_smi(d, do_smi) ==
    LET d0 == Call(d, <<"acpi_raise_smi", do_smi>>)
    IN
    IF 0 \in d0.regs.glbctl
    THEN IF d0.vendor \in {VEN_VIA, VEN_VIA_596B}
         THEN IF ~d0.regs.smi_lock \/ ~d0.regs.smi_active
              THEN [(IF do_smi # 0 THEN smi_raise(d0) ELSE d0)
                        EXCEPT !.regs.smi_active = TRUE]
              ELSE d0
         ELSE IF d0.vendor \in {VEN_INTEL, VEN_ALI}
         THEN LET d1 == IF do_smi # 0 THEN smi_raise(d0) ELSE d0
              IN IF d1.vendor = VEN_INTEL
                 THEN [d1 EXCEPT !.regs.glbctl = @ \ {16}]
                 ELSE [d1 EXCEPT !.regs.ali_soft_smi = {0}]
         ELSE IF d0.vendor = VEN_SMC
         THEN IF do_smi # 0 THEN smi_raise(d0) ELSE d0
         ELSE d0
    ELSE IF d0.vendor = VEN_INTEL_ICH2 /\ do_smi # 0 /\ 0 \in d0.regs.smi_en
         THEN smi_raise(d0)
         ELSE d0

\* an overflow callback that requests the SMI whatever SCI_EN says
overflow_smi_always(d) ==
    LET sci_en == 0 \in d.regs.pmcntrl
        d1 == [d EXCEPT !.regs.pmsts = @ \cup TMROF_STS]
        d2 == IF 0 \in d1.regs.pmen /\ sci_en THEN acpi_update_irq(d1) ELSE d1
    IN IF 0 \in d2.regs.pmen THEN acpi_raise_smi(d2, 1) ELSE d2

\* an overflow callback that records the status and leaves the interrupt alone
overflow_status_only(d) == [d EXCEPT !.regs.pmsts = @ \cup TMROF_STS]

\* acpi_timer_overflow: the callback of dev->timer
acpi_timer_overflow(d) ==
    LET sci_en == 0 \in d.regs.pmcntrl
        d1 == [d EXCEPT !.regs.pmsts = @ \cup TMROF_STS]
    IN IF 0 \in d1.regs.pmen
       THEN IF sci_en THEN acpi_update_irq(d1) ELSE acpi_raise_smi(d1, 1)
       ELSE d1


(***************************************************************************)
(* Sleep-state machine and the common register block                       *)
(***************************************************************************)
NoSleep == {}

\* dev->suspend_types[], filled in by acpi_init (unset entries are 0)
suspend_types(v) ==
    CASE v = VEN_ALI ->
           <<{SUS_POWER_OFF}, {SUS_POWER_OFF},
             {SUS_SUSPEND, SUS_NVR, SUS_RESET_CPU, SUS_RESET_PCI},
             {SUS_SUSPEND}, NoSleep, NoSleep, NoSleep, NoSleep>>
      [] v = VEN_VIA ->
           <<{SUS_POWER_OFF}, NoSleep, {SUS_SUSPEND},
             NoSleep, NoSleep, NoSleep, NoSleep, NoSleep>>
      [] v = VEN_VIA_596B ->
           <<NoSleep, {SUS_SUSPEND, SUS_NVR, SUS_RESET_CPU, SUS_RESET_PCI},
             {SUS_POWER_OFF}, NoSleep, {SUS_SUSPEND},
             {SUS_SUSPEND, SUS_RESET_CPU},
             {SUS_SUSPEND, SUS_RESET_CPU, SUS_RESET_PCI}, NoSleep>>
      [] v = VEN_INTEL ->
           <<{SUS_POWER_OFF},
             {SUS_SUSPEND, SUS_NVR, SUS_RESET_CPU, SUS_RESET_PCI},
             {SUS_SUSPEND, SUS_RESET_CPU}, {SUS_SUSPEND, SUS_RESET_CACHE},
             {SUS_SUSPEND}, NoSleep, NoSleep, NoSleep>>
      [] v = VEN_INTEL_ICH2 ->
           <<NoSleep, {SUS_SUSPEND, SUS_RESET_CPU}, NoSleep, NoSleep, NoSleep,
             {SUS_SUSPEND, SUS_NVR, SUS_RESET_CPU, SUS_RESET_PCI},
             {SUS_POWER_OFF}, {SUS_POWER_OFF}>>
      [] OTHER ->
           <<NoSleep, NoSleep, NoSleep, NoSleep, NoSleep, NoSleep, NoSleep, NoSleep>>

\* (val >> 2) & 7
sus_index(val) ==
    (IF 2 \in val THEN 1 ELSE 0) + (IF 3 \in val THEN 2 ELSE 0)
        + (IF 4 \in val THEN 4 ELSE 0)

\* a suspend that resets the CPU before it flushes the cache
suspend_reset_first(d, sus_typ) ==
    LET d1 == IF SUS_NVR \in sus_typ
              THEN Call(d, <<"nvr_reg_write", \H0f, \Hff>>) ELSE d
        d2 == IF SUS_RESET_PCI \in sus_typ
              THEN Call(d1, <<"device_reset_all_pci">>) ELSE d1
        d3 == IF SUS_RESET_CPU \in sus_typ
              THEN Call(d2, <<"cpu_alt_reset", 0>>) ELSE d2
        d4 == IF SUS_RESET_PCI \in sus_typ
              THEN Call(Call(Call(Call(d3, <<"pci_reset">>),
                        <<"keyboard_at_reset">>), <<"mem_a20_alt", 0>>),
                        <<"mem_a20_recalc">>)
              ELSE d3
        d5 == IF SUS_RESET_CPU \in sus_typ
              THEN Call(d4, <<"resetx86">>) ELSE d4
        d6 == IF sus_typ \cap {SUS_RESET_CPU, SUS_RESET_CACHE} # {}
              THEN Call(d5, <<"flushmmucache">>) ELSE d5
    IN resume_set_delay(Call(d6, <<"plat_pause", 1>>), 50)

\* a suspend that applies every effect, whatever the entry flags
suspend_every_effect(d, sus_typ) ==
    suspend_reset_first(d, {SUS_SUSPEND, SUS_NVR, SUS_RESET_PCI, SUS_RESET_CPU})

\* the body of "if (sus_typ & SUS_SUSPEND)"
suspend_sequence(d, sus_typ) ==
    LET d1 == IF SUS_NVR \in sus_typ
              THEN Call(d, <<"nvr_reg_write", \H0f, \Hff>>) ELSE d
        d2 == IF SUS_RESET_PCI \in sus_typ
              THEN Call(d1, <<"device_reset_all_pci">>) ELSE d1
        d3 == IF SUS_RESET_CPU \in sus_typ
              THEN Call(d2, <<"cpu_alt_reset", 0>>) ELSE d2
        d4 == IF SUS_RESET_PCI \in sus_typ
              THEN Call(Call(Call(Call(d3, <<"pci_reset">>),
                        <<"keyboard_at_reset">>), <<"mem_a20_alt", 0>>),
                        <<"mem_a20_recalc">>)
              ELSE d3
        d5 == IF sus_typ \cap {SUS_RESET_CPU, SUS_RESET_CACHE} # {}
              THEN Call(d4, <<"flushmmucache">>) ELSE d4
        d6 == IF SUS_RESET_CPU \in sus_typ
              THEN Call(d5, <<"resetx86">>) ELSE d5
    IN resume_set_delay(Call(d6, <<"plat_pause", 1>>), 50)

PMSTS_CLR   == Bits(\H8d31)
PMEN_MASK   == Bits(\H0521)
PMCNTRL_MASK == Bits(\H3f07)

\* a merge under the narrower mask 0x3c07
pmcntrl_merge_3c07(d, addr, val) ==
    [d EXCEPT !.regs.pmcntrl = MergeByte(@, val, shift16(addr), Bits(\H3c07))]

pmcntrl_merge(d, addr, val) ==
    [d EXCEPT !.regs.pmcntrl = MergeByte(@, val, shift16(addr), PMCNTRL_MASK)]

\* the ICH2 SLP_SMI_EN test of case 0x04/0x05
slp_smi_trap(d, addr, val) ==
    /\ addr = \H05
    /\ 5 \in val
    /\ 2 \in val
    /\ 4 \in d.regs.smi_en
    /\ d.vendor = VEN_INTEL_ICH2

\* a control write whose power-off branch falls through to the merge
pmcntrl_write_merging(d, addr, val) ==
    IF slp_smi_trap(d, addr, val)
    THEN pmcntrl_merge(
             acpi_raise_smi([d EXCEPT !.regs.smi_sts = @ \cup {4}], 1),
             addr, val)
    ELSE IF addr = \H05 /\ 5 \in val
    THEN LET sus_typ == suspend_types(d.vendor)[sus_index(val) + 1]
         IN IF SUS_POWER_OFF \in sus_typ
            THEN pmcntrl_merge(plat_power_off(d), addr, val)
            ELSE IF SUS_SUSPEND \in sus_typ
            THEN pmcntrl_merge(suspend_sequence(d, sus_typ), addr, val)
            ELSE pmcntrl_merge(d, addr, val)
    ELSE pmcntrl_merge(d, addr, val)

\* case 0x04 / 0x05: PMCNTRL with the sleep-state machine
pmcntrl_write(d, addr, val) ==
    IF slp_smi_trap(d, addr, val)
    THEN pmcntrl_merge(
             acpi_raise_smi([d EXCEPT !.regs.smi_sts = @ \cup {4}], 1),
             addr, val)
    ELSE IF addr = \H05 /\ 5 \in val
    THEN LET sus_typ == suspend_types(d.vendor)[sus_index(val) + 1]
         IN IF SUS_POWER_OFF \in sus_typ
            THEN plat_power_off(d)
            ELSE IF SUS_SUSPEND \in sus_typ
            THEN pmcntrl_merge(suspend_sequence(d, sus_typ), addr, val)
            ELSE pmcntrl_merge(d, addr, val)
    ELSE pmcntrl_merge(d, addr, val)

acpi_reg_write_common_regs(d, size, addr0, val) ==
    LET addr == addr0 % \H40
    IN
    CASE addr \in {\H00, \H01} ->
           LET d1 == [d EXCEPT !.regs.pmsts =
                          ClearBits(@, val, shift16(addr), PMSTS_CLR)]
               d2 == IF addr = \H01 /\ 2 \in val
                     THEN [d1 EXCEPT !.acpi_rtc_status = 0] ELSE d1
           IN acpi_update_irq(d2)
      [] addr \in {\H02, \H03} ->
           acpi_update_irq([d EXCEPT !.regs.pmen =
                               MergeByte(@, val, shift16(addr), PMEN_MASK)])
      [] addr \in {\H04, \H05} -> pmcntrl_write(d, addr, val)
      [] OTHER -> d

trap_update(d) == IF d.trap_update THEN Call(d, <<"trap_update">>) ELSE d

(***************************************************************************)
(* Profile decoders: writes                                                *)
(***************************************************************************)
acpi_reg_write_ali(d, size, addr0, val) ==
    LET addr == addr0 % \H40
        s16  == shift16(addr)
        s32  == shift32(addr)
    IN
    CASE addr \in \H10..\H13 ->
           [d EXCEPT !.regs.pcntrl = MergeByte(@, val, s32, Bits(\H00023e1e))]
      [] addr = \H14 -> [d EXCEPT !.regs.plvl2 = val]
      [] addr = \H15 -> [d EXCEPT !.regs.plvl3 = val]
      [] addr \in {\H18, \H19} ->
           [d EXCEPT !.regs.gpsts = ClearBits(@, val, s16, Bits(\H0d07))]
      [] addr \in {\H1a, \H1b} ->
           [d EXCEPT !.regs.gpen = MergeByte(@, val, s16, Bits(\H0d07))]
      [] addr \in {\H1c, \H1d} ->
           [d EXCEPT !.regs.gpsts1 = ClearBits(@, val, s16, Bits(\H0c01))]
      [] addr \in {\H1e, \H1f} ->
           \* the code merges into gpen, not gpen1
           [d EXCEPT !.regs.gpen1 = MergeByte(d.regs.gpen, val, s16, Bits(\H0c01))]
      [] addr \in \H20..\H27 ->
           [d EXCEPT !.regs.gpcntrl = MergeByte(@, val, s32, Bits(\H00000001))]
      [] addr = \H30 ->
           [d EXCEPT !.regs.pmcntrl = val \cap Bits(1)]
      [] OTHER ->
           LET d1 == acpi_reg_write_common_regs(d, size, addr, val)
           IN IF addr = \H00 /\ 5 \notin d1.regs.pmsts
              THEN [d1 EXCEPT !.regs.gpcntrl = @ \ Bits(\H0002)]
              ELSE IF addr = \H04 /\ 2 \in d1.regs.pmcntrl
              THEN LET d2 == [d1 EXCEPT !.regs.gpsts1 = @ \cup Bits(\H01)]
                   IN IF 0 \in d2.regs.gpen1 THEN acpi_raise_smi(d2, 1) ELSE d2
              ELSE d1

acpi_reg_write_intel(d, size, addr0, val) ==
    LET addr == addr0 % \H40
        s16  == shift16(addr)
        s32  == shift32(addr)
    IN
    CASE addr \in {\H0c, \H0d} ->
           [d EXCEPT !.regs.gpsts = ClearBits(@, val, s16, Bits(\H0f81))]
      [] addr \in {\H0e, \H0f} ->
           [d EXCEPT !.regs.gpen = MergeByte(@, val, s16, Bits(\H0f01))]
      [] addr \in {\H10, \H11, \H13} ->
           [d EXCEPT !.regs.pcntrl = MergeByte(@, val, s32, Bits(\H00023e1e))]
      [] addr = \H12 ->
           \* ~(0xfd << shift32): bit 1 of the lane survives the write
           [d EXCEPT !.regs.pcntrl =
               ((@ \ Shl(Bits(\Hfd), s32)) \cup Shl(val, s32)) \cap Bits(\H00023e1e)]
      [] addr \in {\H18, \H19} ->
           [d EXCEPT !.regs.glbsts = ClearBits(@, val, s16, Bits(\H0d27))]
      [] addr \in \H1c..\H1f ->
           [d EXCEPT !.regs.devsts = ClearBits(@, val, s32, Bits(\H3fff0fff))]
      [] addr \in {\H20, \H21} ->
           [d EXCEPT !.regs.glben = MergeByte(@, val, s16, Bits(\H8d1f))]
      [] addr \in \H28..\H2b ->
           LET d1 == [d EXCEPT !.regs.glbctl =
                          MergeByte(@, val, s32, Bits(\H0701ff07))]
           IN IF 1 \in d1.regs.glbctl
              THEN LET d2 == [d1 EXCEPT !.regs.pmsts = @ \cup Bits(\H20)]
                   IN IF 5 \in d2.regs.pmen THEN acpi_update_irq(d2) ELSE d2
              ELSE d1
      [] addr \in \H2c..\H2f ->
           trap_update([d EXCEPT !.regs.devctl =
                           MergeByte(@, val, s32, Bits(\H0fffffff))])
      [] addr \in \H34..\H37 ->
           IF size = 1 THEN [d EXCEPT !.regs.gporeg[addr % 4] = val] ELSE d
      [] OTHER ->
           LET d1 == acpi_reg_write_common_regs(d, size, addr, val)
           IN IF addr = \H00 /\ 5 \notin d1.regs.pmsts
              THEN [d1 EXCEPT !.regs.glbctl = @ \ Bits(\H0002)]
              ELSE IF addr = \H04 /\ 2 \in d1.regs.pmcntrl
              THEN LET d2 == [d1 EXCEPT !.regs.glbsts = @ \cup Bits(\H01)]
                   IN IF 1 \in d2.regs.glben THEN acpi_raise_smi(d2, 1) ELSE d2
              ELSE d1

acpi_reg_write_intel_ich2(d, size, addr0, val) ==
    LET addr == addr0 % \H80
        s16  == shift16(addr)
        s32  == shift32(addr)
    IN
    CASE addr \in \H10..\H13 ->
           [d EXCEPT !.regs.pcntrl = MergeByte(@, val, s32, Bits(\H000201fe))]
      [] addr \in {\H28, \H29} ->
           [d EXCEPT !.regs.gpsts = ClearBits(@, val, s16, Bits(\H09fb))]
      [] addr \in {\H2a, \H2b} ->
           [d EXCEPT !.regs.gpen = MergeByte(@, val, s16, Bits(\H097d))]
      [] addr \in {\H2c, \H2d} ->
           [d EXCEPT !.regs.gpsts1 = ClearBits(@, val, s16, Bits(\H09fb))]
      [] addr \in {\H2e, \H2f} ->
           \* the code merges into gpen, not gpen1
           [d EXCEPT !.regs.gpen1 = MergeByte(d.regs.gpen, val, s16, Bits(\H097d))]
      [] addr \in \H30..\H33 ->
           LET d1 == [d EXCEPT !.regs.smi_en =
                          MergeByte(@, val, s32, Bits(\H0000867f))]
           IN IF addr = \H30
              THEN LET d2 == Call([d1 EXCEPT !.apm_do_smi = (5 \in val)],
                                  <<"apm_set_do_smi", 5 \in val>>)
                   IN IF 7 \in val
                      THEN acpi_update_irq(
                               [d2 EXCEPT !.regs.glbsts = @ \cup Bits(\H0020)])
                      ELSE d2
              ELSE d1
      [] addr \in \H34..\H37 ->
           [d EXCEPT !.regs.smi_sts = ClearBits(@, val, s32, Bits(\H0001ff7c))]
      [] addr \in {\H40, \H41} ->
           [d EXCEPT !.regs.mon_smi = MergeByte(@, val, s16, Bits(\H097d))]
      [] addr \in {\H44, \H45} ->
           [d EXCEPT !.regs.devact_sts = ClearBits(@, val, s16, Bits(\H3fef))]
      [] addr \in {\H48, \H49} ->
           trap_update([d EXCEPT !.regs.devtrap_en =
                           MergeByte(@, val, s16, Bits(\H3c2f))])
      [] addr \in \H4c..\H4d ->
           [d EXCEPT !.regs.bus_addr_track = MergeByte(@, val, s16, Bits(\H097d))]
      [] addr = \H4e -> [d EXCEPT !.regs.bus_cyc_track = val]
      [] addr \in \H60..\H70 -> Call(d, <<"tco_write", addr, val>>)
      [] OTHER ->
           LET d1 == acpi_reg_write_common_regs(d, size, addr, val)
               d2 == IF addr = \H04 /\ 2 \in val /\ 2 \in d1.regs.smi_en
                     THEN acpi_raise_smi(
                              [d1 EXCEPT !.regs.smi_sts = Bits(\H00000004)], 1)
                     ELSE d1
           IN IF addr = \H02 \/ 5 \in val \/ 5 \in d2.regs.glbsts
              THEN acpi_update_irq(d2)
              ELSE d2

acpi_reg_write_via_common(d, size, addr0, val) ==
    LET addr == addr0 % \H100
        s16  == shift16(addr)
        s32  == shift32(addr)
    IN
    CASE addr \in \H10..\H13 ->
           [d EXCEPT !.regs.pcntrl = MergeByte(@, val, s32, Bits(\H0000001e))]
      [] addr \in {\H20, \H21} ->
           [d EXCEPT !.regs.gpsts = ClearBits(@, val, s16, Bits(\H03ff))]
      [] addr \in {\H22, \H23} ->
           [d EXCEPT !.regs.gpscien = MergeByte(@, val, s16, Bits(\H03ff))]
      [] addr \in {\H24, \H25} ->
           [d EXCEPT !.regs.gpsmien = MergeByte(@, val, s16, Bits(\H03ff))]
      [] addr \in {\H26, \H27} ->
           [d EXCEPT !.regs.pscntrl = MergeByte(@, val, s16, Bits(\H0701))]
      [] addr = \H2c ->
           LET g  == (d.regs.glbctl \ BYTE) \cup val
               d1 == [d EXCEPT !.regs.glbctl = g, !.regs.smi_lock = (4 \in g)]
           IN IF 1 \in g
              THEN LET d2 == [d1 EXCEPT !.regs.pmsts = @ \cup Bits(\H20)]
                   IN IF 5 \in d2.regs.pmen THEN acpi_update_irq(d2) ELSE d2
              ELSE d1
      [] addr = \H2d ->
           LET d1 == [d EXCEPT !.regs.glbctl = @ \ (Shl(val, 8) \cap Bits(\H0100))]
           IN IF 0 \in val THEN [d1 EXCEPT !.regs.smi_active = FALSE] ELSE d1
      [] addr = \H2f ->
           IF size = 1
           THEN LET d1 == [d EXCEPT !.regs.smicmd = val,
                                    !.regs.glbsts = @ \cup Bits(\H40)]
                IN IF 6 \in d1.regs.glben THEN acpi_raise_smi(d1, 1) ELSE d1
           ELSE d
      [] addr \in \H38..\H3b ->
           [d EXCEPT !.regs.gptren = MergeByte(@, val, s32, Bits(\H000000d9))]
      [] OTHER ->
           LET d1 == acpi_reg_write_common_regs(d, size, addr, val)
           IN IF addr = \H00 /\ 5 \notin d1.regs.pmsts
              THEN [d1 EXCEPT !.regs.glbctl = @ \ Bits(\H0002)]
              ELSE IF addr = \H04 /\ 2 \in d1.regs.pmcntrl
              THEN LET d2 == [d1 EXCEPT !.regs.glbsts = @ \cup Bits(\H20)]
                   IN IF 5 \in d2.regs.glben THEN acpi_raise_smi(d2, 1) ELSE d2
              ELSE d1

\* i2c_gpio_set(dev->i2c, scl, sda) when the device owns an I2C bus
acpi_i2c_set(d) ==
    IF d.i2c
    THEN Call(d, <<"i2c_gpio_set",
                   (1 \notin d.regs.gpio_dir) \/ (1 \in d.regs.gpio_val),
                   (2 \notin d.regs.gpio_dir) \/ (2 \in d.regs.gpio_val)>>)
    ELSE d

acpi_reg_write_via(d, size, addr0, val) ==
    LET addr == addr0 % \H100
        s16  == shift16(addr)
        s32  == shift32(addr)
    IN
    CASE addr \in {\H28, \H29} ->
           [d EXCEPT !.regs.glbsts = ClearBits(@, val, s16, Bits(\H007f))]
      [] addr \in {\H2a, \H2b} ->
           [d EXCEPT !.regs.glben = MergeByte(@, val, s16, Bits(\H007f))]
      [] addr \in \H30..\H33 ->
           [d EXCEPT !.regs.padsts = ClearBits(@, val, s32, Bits(\H000000fd))]
      [] addr \in \H34..\H37 ->
           trap_update([d EXCEPT !.regs.paden =
                           MergeByte(@, val, s32, Bits(\H000000fd))])
      [] addr = \H40 ->
           IF size = 1
           THEN acpi_i2c_set([d EXCEPT !.regs.gpio_dir = val \cap Bits(\H7f)])
           ELSE d
      [] addr = \H42 ->
           IF size = 1
           THEN acpi_i2c_set([d EXCEPT !.regs.gpio_val = val \cap Bits(\H13)])
           ELSE d
      [] addr \in {\H46, \H47} ->
           [d EXCEPT !.regs.gpo_val = MergeByte(@, val, s16, Bits(\Hffff))]
      [] OTHER -> acpi_reg_write_via_common(d, size, addr, val)

acpi_reg_write_via_596b(d, size, addr0, val) ==
    LET addr == addr0 % \H80
        s16  == shift16(addr)
        s32  == shift32(addr)
    IN
    CASE addr \in {\H28, \H29} ->
           [d EXCEPT !.regs.glbsts = ClearBits(@, val, s16, Bits(\Hfdff))]
      [] addr \in {\H2a, \H2b} ->
           [d EXCEPT !.regs.glben = MergeByte(@, val, s16, Bits(\Hfdff))]
      [] addr \in \H30..\H33 ->
           [d EXCEPT !.regs.padsts = ClearBits(@, val, s32, Bits(\H000007ff))]
      [] addr \in \H34..\H37 ->
           trap_update([d EXCEPT !.regs.paden =
                           MergeByte(@, val, s32, Bits(\H000007ff))])
      [] addr = \H40 ->
           [d EXCEPT !.regs.extiotrapsts = @ \ (val \cap Bits(\H13))]
      [] addr = \H42 ->
           [d EXCEPT !.regs.extiotrapen = val \cap Bits(\H13)]
      [] addr \in \H4c..\H4f ->
           [d EXCEPT !.regs.gpo_val = MergeByte(@, val, s32, Bits(\H7fffffff))]
      [] OTHER -> acpi_reg_write_via_common(d, size, addr, val)

\* an SMC decoder whose global-release hook tests PMCNTRL as it was before the
\* write
smc_hook_before_write(d, size, addr0, val) ==
    LET addr == addr0 % \H10
        d1   == acpi_reg_write_common_regs(d, size, addr, val)
    IN IF addr = \H00 /\ 5 \notin d1.regs.pmsts
       THEN [d1 EXCEPT !.regs.glbctl = @ \ Bits(\H0001)]
       ELSE IF addr = \H04 /\ 2 \in d.regs.pmcntrl
       THEN LET d2 == [d1 EXCEPT !.regs.glbsts = @ \cup Bits(\H01)]
            IN IF 0 \in d2.regs.glben THEN acpi_raise_smi(d2, 1) ELSE d2
       ELSE d1

acpi_reg_write_smc(d, size, addr0, val) ==
    LET addr == addr0 % \H10
        d1   == acpi_reg_write_common_regs(d, size, addr, val)
    IN IF addr = \H00 /\ 5 \notin d1.regs.pmsts
       THEN [d1 EXCEPT !.regs.glbctl = @ \ Bits(\H0001)]
       ELSE IF addr = \H04 /\ 2 \in d1.regs.pmcntrl
       THEN LET d2 == [d1 EXCEPT !.regs.glbsts = @ \cup Bits(\H01)]
            IN IF 0 \in d2.regs.glben THEN acpi_raise_smi(d2, 1) ELSE d2
       ELSE d1

acpi_aux_reg_write_smc(d, size, addr0, val) ==
    LET addr == addr0 % \H08
        s16  == shift16(addr)
    IN
    CASE addr \in {\H00, \H01} ->
           [d EXCEPT !.regs.gpscists = ClearBits(@, val, s16, Bits(\H000c))]
      [] addr \in {\H02, \H03} ->
           [d EXCEPT !.regs.gpscien = MergeByte(@, val, s16, Bits(\H3fff))]
      [] addr \in {\H04, \H05} ->
           [d EXCEPT !.regs.glbsts = ClearBits(@, val, s16, Bits(\H001f))]
      [] addr = \H06 -> [d EXCEPT !.regs.glben = val \cap Bits(\H03)]
      [] addr = \H07 ->
           LET d1 == [d EXCEPT !.regs.glbctl = val \cap Bits(\H03)]
               d2 == IF 0 \in d1.regs.glbctl
                     THEN LET e == [d1 EXCEPT !.regs.pmsts = @ \cup Bits(\H20)]
                          IN IF 5 \in e.regs.pmen THEN acpi_update_irq(e) ELSE e
                     ELSE d1
           IN IF 1 \in d2.regs.glbctl
              THEN LET e == [d2 EXCEPT !.regs.pmsts = @ \cup Bits(\H10)]
                   IN IF 1 \in e.regs.pmcntrl THEN acpi_update_irq(e) ELSE e
              ELSE d2
      [] OTHER -> d

acpi_reg_write_common(d, size, addr, val) ==
    CASE d.vendor = VEN_ALI        -> acpi_reg_write_ali(d, size, addr, val)
      [] d.vendor = VEN_VIA        -> acpi_reg_write_via(d, size, addr, val)
      [] d.vendor = VEN_VIA_596B   -> acpi_reg_write_via_596b(d, size, addr, val)
      [] d.vendor = VEN_INTEL      -> acpi_reg_write_intel(d, size, addr, val)
      [] d.vendor = VEN_INTEL_ICH2 -> acpi_reg_write_intel_ich2(d, size, addr, val)
      [] d.vendor = VEN_SMC        -> acpi_reg_write_smc(d, size, addr, val)
      [] OTHER -> d

acpi_aux_reg_write_common(d, size, addr, val) ==
    IF d.vendor = VEN_SMC THEN acpi_aux_reg_write_smc(d, size, addr, val) ELSE d

(***************************************************************************)
(* Profile decoders: reads (each returns one byte as a bit set)            *)
(***************************************************************************)
\* (reg >> shift) & 0xff
ByteOf(S, shift) == {b - shift : b \in {x \in S : x >= shift /\ x < shift + 8}}

\* a common block that returns the high byte of PMCNTRL as it is stored
read_common_regs_unmasked(d, size, addr0) ==
    LET addr == addr0 % \H40
        s16  == shift16(addr)
        s32  == shift32(addr)
    IN
    CASE addr \in {\H00, \H01} ->
           ByteOf(d.regs.pmsts, s16)
               \cup (IF addr = \H01 /\ d.acpi_rtc_status # 0 THEN {2} ELSE {})
      [] addr \in {\H02, \H03} -> ByteOf(d.regs.pmen, s16)
      [] addr \in {\H04, \H05} -> ByteOf(d.regs.pmcntrl, s16)
      [] addr \in \H08..\H0b -> ByteOf(acpi_timer_get(d), s32)
      [] OTHER -> {}

acpi_reg_read_common_regs(d, size, addr0) ==
    LET addr == addr0 % \H40
        s16  == shift16(addr)
        s32  == shift32(addr)
    IN
    CASE addr \in {\H00, \H01} ->
           ByteOf(d.regs.pmsts, s16)
               \cup (IF addr = \H01 /\ d.acpi_rtc_status # 0 THEN {2} ELSE {})
      [] addr \in {\H02, \H03} -> ByteOf(d.regs.pmen, s16)
      [] addr \in {\H04, \H05} ->
           IF addr = \H05
           THEN ByteOf(d.regs.pmcntrl, s16) \cap Bits(\Hdf)
           ELSE ByteOf(d.regs.pmcntrl, s16)
      [] addr \in \H08..\H0b -> ByteOf(acpi_timer_get(d), s32)
      [] OTHER -> {}

acpi_reg_read_ali(d, size, addr0) ==
    LET addr == addr0 % \H40
        s16  == shift16(addr)
        s32  == shift32(addr)
    IN
    CASE addr \in \H10..\H13 -> ByteOf(d.regs.pcntrl, s16)
      [] addr = \H14 -> d.regs.plvl2
      [] addr = \H15 -> d.regs.plvl3
      [] addr \in {\H18, \H19} -> ByteOf(d.regs.gpsts, s16)
      [] addr \in {\H1a, \H1b} -> ByteOf(d.regs.gpen, s16)
      [] addr \in {\H1c, \H1d} -> ByteOf(d.regs.gpsts1, s16)
      [] addr \in {\H1e, \H1f} -> ByteOf(d.regs.gpen1, s16)
      [] addr \in \H20..\H27 -> ByteOf(d.regs.gpcntrl, s32)
      [] addr = \H30 -> d.regs.pmcntrl
      [] OTHER -> acpi_reg_read_common_regs(d, size, addr)

acpi_reg_read_intel(d, size, addr0) ==
    LET addr == addr0 % \H40
        s16  == shift16(addr)
        s32  == shift32(addr)
    IN
    CASE addr \in {\H0c, \H0d} -> ByteOf(d.regs.gpsts, s16)
      [] addr \in {\H0e, \H0f} -> ByteOf(d.regs.gpen, s16)
      [] addr \in \H10..\H13 -> ByteOf(d.regs.pcntrl, s32)
      [] addr \in {\H18, \H19} ->
           IF addr = \H18
           THEN (ByteOf(d.regs.glbsts, s16) \cap Bits(\H27))
                  \cup (IF d.regs.gpsts # {} THEN Bits(\H80) ELSE {})
                  \cup (IF d.regs.pmsts # {} THEN Bits(\H40) ELSE {})
                  \cup (IF d.regs.devsts # {} THEN Bits(\H10) ELSE {})
           ELSE ByteOf(d.regs.glbsts, s16)
      [] addr \in \H1c..\H1f -> ByteOf(d.regs.devsts, s32)
      [] addr \in {\H20, \H21} -> ByteOf(d.regs.glben, s16)
      [] addr \in \H28..\H2b -> ByteOf(d.regs.glbctl, s32)
      [] addr \in \H2c..\H2f -> ByteOf(d.regs.devctl, s32)
      [] addr \in \H30..\H32 ->
           IF size = 1 THEN d.regs.gpireg[addr % 4] ELSE {}
      [] addr \in \H34..\H37 ->
           IF size = 1 THEN d.regs.gporeg[addr % 4] ELSE {}
      [] OTHER -> acpi_reg_read_common_regs(d, size, addr)

\* tco_read(addr, dev->tco): the TCO registers live in another device
tco_read(d, addr) == {}

acpi_reg_read_intel_ich2(d, size, addr0) ==
    LET addr == addr0 % \H80
        s16  == shift16(addr)
        s32  == shift32(addr)
    IN
    CASE addr \in \H10..\H13 -> ByteOf(d.regs.pcntrl, s32)
      [] addr \in {\H28, \H29} -> ByteOf(d.regs.gpsts, s16)
      [] addr \in {\H2a, \H2b} -> ByteOf(d.regs.gpen, s16)
      [] addr \in {\H2c, \H2d} -> ByteOf(d.regs.gpsts1, s16)
      [] addr \in {\H2e, \H2f} -> ByteOf(d.regs.gpen1, s16)
      [] addr \in \H30..\H33 -> ByteOf(d.regs.smi_en, s32)
      [] addr \in \H34..\H37 -> ByteOf(d.regs.smi_sts, s32)
      [] addr \in {\H40, \H41} -> ByteOf(d.regs.mon_smi, s16)
      [] addr \in {\H44, \H45} -> ByteOf(d.regs.devact_sts, s16)
      [] addr \in {\H48, \H49} -> ByteOf(d.regs.devtrap_en, s16)
      [] addr \in \H4c..\H4d -> ByteOf(d.regs.bus_addr_track, s16)
      [] addr = \H4e -> d.regs.bus_cyc_track
      [] addr \in \H60..\H70 -> tco_read(d, addr)
      [] OTHER -> acpi_reg_read_common_regs(d, size, addr)

acpi_reg_read_via_common(d, size, addr0) ==
    LET addr == addr0 % \H100
        s16  == shift16(addr)
        s32  == shift32(addr)
    IN
    CASE addr \in \H10..\H13 -> ByteOf(d.regs.pcntrl, s32)
      [] addr \in {\H20, \H21} -> ByteOf(d.regs.gpsts, s16)
      [] addr \in {\H22, \H23} -> ByteOf(d.regs.gpscien, s16)
      [] addr \in {\H24, \H25} -> ByteOf(d.regs.gpsmien, s16)
      [] addr \in {\H26, \H27} -> ByteOf(d.regs.pscntrl, s16)
      [] addr \in {\H28, \H29} -> ByteOf(d.regs.glbsts, s16)
      [] addr \in {\H2a, \H2b} -> ByteOf(d.regs.glben, s16)
      [] addr \in {\H2c, \H2d} ->
           ((ByteOf(d.regs.glbctl, s16) \ Bits(\H10))
               \cup (IF d.regs.smi_lock THEN Bits(\H10) ELSE {}))
               \cup (IF d.regs.smi_active THEN Bits(\H01) ELSE {})
      [] addr = \H2f -> IF size = 1 THEN d.regs.smicmd ELSE {}
      [] addr \in \H30..\H33 -> ByteOf(d.regs.padsts, s32)
      [] addr \in \H34..\H37 -> ByteOf(d.regs.paden, s32)
      [] addr \in \H38..\H3b -> ByteOf(d.regs.gptren, s32)
      [] OTHER -> acpi_reg_read_common_regs(d, size, addr)

acpi_reg_read_via(d, size, addr0) ==
    LET addr == addr0 % \H100
        s16  == shift16(addr)
    IN
    CASE addr = \H40 -> IF size = 1 THEN Trunc(d.regs.gpio_dir, 8) ELSE {}
      [] addr = \H42 -> IF size = 1 THEN d.regs.gpio_val \cap Bits(\H13) ELSE {}
      [] addr = \H44 ->
           IF size = 1
           THEN IF d.i2c
                THEN (Trunc(d.regs.extsmi_val, 8) \cap Bits(\Hf9))
                       \cup (IF 1 \notin d.regs.gpio_dir /\ d.i2c_scl THEN {1} ELSE {})
                       \cup (IF 2 \notin d.regs.gpio_dir /\ d.i2c_sda THEN {2} ELSE {})
                ELSE Trunc(d.regs.extsmi_val, 8)
           ELSE {}
      [] addr \in {\H46, \H47} -> ByteOf(d.regs.gpo_val, s16)
      [] addr \in {\H48, \H49} -> ByteOf(d.regs.gpi_val, s16)
      [] OTHER -> acpi_reg_read_via_common(d, size, addr)

acpi_reg_read_via_596b(d, size, addr0) ==
    LET addr == addr0 % \H80
        s16  == shift16(addr)
        s32  == shift32(addr)
    IN
    CASE addr = \H40 -> d.regs.extiotrapsts
      [] addr = \H42 -> d.regs.extiotrapen
      [] addr \in {\H44, \H45} -> ByteOf(d.regs.extsmi_val, s16)
      [] addr \in \H48..\H4b -> ByteOf(d.regs.gpi_val, s32)
      [] addr \in \H4c..\H4f -> ByteOf(d.regs.gpo_val, s32)
      [] OTHER -> acpi_reg_read_via_common(d, size, addr)

acpi_reg_read_smc(d, size, addr0) ==
    acpi_reg_read_common_regs(d, size, addr0 % \H10)

acpi_aux_reg_read_smc(d, size, addr0) ==
    LET addr == addr0 % \H08
        s16  == shift16(addr)
    IN
    CASE addr \in {\H00, \H01} -> ByteOf(d.regs.pcntrl, s16)
      [] addr \in {\H02, \H03} -> ByteOf(d.regs.gpscien, s16)
      [] addr \in {\H04, \H05} -> ByteOf(d.regs.glbsts, s16)
      [] addr = \H06 -> Trunc(d.regs.glben, 8)
      [] addr = \H07 -> Trunc(d.regs.glbctl, 8)
      [] OTHER -> {}

\* uint8_t ret = 0xff, overwritten by the profile's handler
acpi_reg_read_common(d, size, addr) ==
    Trunc(CASE d.vendor = VEN_ALI        -> acpi_reg_read_ali(d, size, addr)
            [] d.vendor = VEN_VIA        -> acpi_reg_read_via(d, size, addr)
            [] d.vendor = VEN_VIA_596B   -> acpi_reg_read_via_596b(d, size, addr)
            [] d.vendor = VEN_INTEL      -> acpi_reg_read_intel(d, size, addr)
            [] d.vendor = VEN_INTEL_ICH2 -> acpi_reg_read_intel_ich2(d, size, addr)
            [] d.vendor = VEN_SMC        -> acpi_reg_read_smc(d, size, addr)
            [] OTHER -> BYTE, 8)

acpi_aux_reg_read_common(d, size, addr) ==
    IF d.vendor = VEN_SMC THEN Trunc(acpi_aux_reg_read_smc(d, size, addr), 8)
    ELSE BYTE

(***************************************************************************)
(* Guest accessors: 16- and 32-bit accesses are split into byte accesses   *)
(***************************************************************************)
\* the byte accesses of one guest write, lowest byte first: bytes k.. of val go
\* to addr + k.. through the primary (aux = FALSE) or auxiliary decoder
RECURSIVE WriteBytes(_, _, _, _, _, _)
WriteBytes(d, aux, size, addr, val, k) ==
    IF k >= size THEN d
    ELSE WriteBytes(IF aux
                    THEN acpi_aux_reg_write_common(d, size, addr + k, ByteOf(val, 8 * k))
                    ELSE acpi_reg_write_common(d, size, addr + k, ByteOf(val, 8 * k)),
                    aux, size, addr, val, k + 1)

acpi_reg_write(d, addr, val) == WriteBytes(d, FALSE, 1, addr, val, 0)

acpi_reg_writew(d, addr, val) == WriteBytes(d, FALSE, 2, addr, val, 0)

\* a 32-bit write that stores the low word only
writel_low_word(d, addr, val) == WriteBytes(d, FALSE, 2, addr, val, 0)

acpi_reg_writel(d, addr, val) == WriteBytes(d, FALSE, 4, addr, val, 0)

acpi_aux_reg_write(d, addr, val) == WriteBytes(d, TRUE, 1, addr, val, 0)

acpi_aux_reg_writew(d, addr, val) == WriteBytes(d, TRUE, 2, addr, val, 0)

acpi_aux_reg_writel(d, addr, val) == WriteBytes(d, TRUE, 4, addr, val, 0)

\* the byte accesses of one guest read, assembled lowest byte first
RECURSIVE ReadBytes(_, _, _, _, _)
ReadBytes(d, aux, size, addr, k) ==
    IF k >= size THEN {}
    ELSE Shl(IF aux THEN acpi_aux_reg_read_common(d, size, addr + k)
             ELSE acpi_reg_read_common(d, size, addr + k), 8 * k)
         \cup ReadBytes(d, aux, size, addr, k + 1)

acpi_reg_read(d, addr) == ReadBytes(d, FALSE, 1, addr, 0)

acpi_reg_readw(d, addr) == ReadBytes(d, FALSE, 2, addr, 0)

\* a 32-bit read that assembles the low word only
readl_low_word(d, addr) == ReadBytes(d, FALSE, 2, addr, 0)

acpi_reg_readl(d, addr) == ReadBytes(d, FALSE, 4, addr, 0)

acpi_aux_reg_read(d, addr) == ReadBytes(d, TRUE, 1, addr, 0)

acpi_aux_reg_readw(d, addr) == ReadBytes(d, TRUE, 2, addr, 0)

acpi_aux_reg_readl(d, addr) == ReadBytes(d, TRUE, 4, addr, 0)

(***************************************************************************)
(* Construction, reset and the timer callbacks                             *)
(***************************************************************************)
\* memset(&dev->regs, 0x00, sizeof(acpi_regs_t))
ZeroRegs ==
    [pmsts |-> {}, pmen |-> {}, pmcntrl |-> {},
     gpsts |-> {}, gpsts1 |-> {}, gpen |-> {}, gpen1 |-> {}, gpcntrl |-> {},
     gpscien |-> {}, gpsmien |-> {}, pscntrl |-> {}, gpscists |-> {},
     glbsts |-> {}, glben |-> {}, glbctl |-> {}, devsts |-> {}, devctl |-> {},
     pcntrl |-> {}, plvl2 |-> {}, plvl3 |-> {},
     smi_en |-> {}, smi_sts |-> {}, mon_smi |-> {}, devact_sts |-> {},
     devtrap_en |-> {}, bus_addr_track |-> {}, bus_cyc_track |-> {},
     smicmd |-> {}, padsts |-> {}, paden |-> {}, gptren |-> {},
     gpio_dir |-> {}, gpio_val |-> {}, extsmi_val |-> {},
     gpo_val |-> {}, gpi_val |-> {}, extiotrapsts |-> {}, extiotrapen |-> {},
     gpireg |-> [i \in 0..2 |-> {}], gporeg |-> [i \in 0..3 |-> {}],
     timer32 |-> FALSE, smi_lock |-> FALSE, smi_active |-> FALSE,
     ali_soft_smi |-> {}]

\* a reset that sets the resume status and leaves the register file as it is
reset_without_memset(d) ==
    [d EXCEPT !.regs.pmsts = @ \cup Bits(\H8000), !.acpi_rtc_status = 0]

acpi_reset(d) ==
    LET r1 == [ZeroRegs EXCEPT !.gpireg = [i \in 0..2 |->
                                   IF i < 2 THEN Bits(\Hff) ELSE d.gpireg2_default],
                               !.gporeg = d.gporeg_default]
        r2 == IF d.vendor = VEN_VIA_596B
              THEN [r1 EXCEPT !.gpo_val = Bits(\H7fffffff),
                              \* 0xfff57fc1, and bit 2 on two boards
                              !.gpi_val = Bits(\H7ff57fc1) \cup {31} \cup
                                          (IF d.machine \in {"ficva503a", "6via90ap"}
                                           THEN Bits(\H00000004) ELSE {})]
              ELSE r1
    IN [d EXCEPT !.regs = [r2 EXCEPT !.pmsts = @ \cup Bits(\H8000)],
                 !.acpi_rtc_status = 0]

\* memset(dev, 0, sizeof(acpi_t)), the profile's settings, timer_add and acpi_reset;
\* machine is what machine_get_internal_name() returns
acpi_init(v, machine) ==
    acpi_reset(
        [vendor |-> v,
         machine |-> machine,
         irq_mode |-> IF v = VEN_ALI THEN 2 ELSE 0,
         irq_line |-> 9,
         gpireg2_default |-> {},
         gporeg_default |-> [i \in 0..3 |-> {}],
         i2c |-> (v = VEN_VIA),
         i2c_scl |-> TRUE,
         i2c_sda |-> TRUE,
         trap_update |-> FALSE,
         apm_do_smi |-> FALSE,
         acpi_rtc_status |-> 0,
         regs |-> ZeroRegs,
         irq |-> [l \in IrqLines |-> FALSE],
         timer |-> [enabled |-> FALSE, period |-> {}],
         resume_timer |-> [enabled |-> FALSE, delay |-> 0],
         io_base |-> 0,
         aux_io_base |-> 0,
         io |-> <<>>,
         calls |-> <<>>])

acpi_set_irq_mode(d, irq_mode) == [d EXCEPT !.irq_mode = irq_mode]

acpi_set_timer32(d, timer32) == [d EXCEPT !.regs.timer32 = timer32]

acpi_init_gporeg(d, val0, val1, val2, val3) ==
    LET vals == [i \in 0..3 |-> Bits(<<val0, val1, val2, val3>>[i + 1])]
    IN [d EXCEPT !.regs.gporeg = vals, !.gporeg_default = vals]

acpi_set_gpireg2_default(d, gpireg2_default) ==
    [d EXCEPT !.gpireg2_default = Bits(gpireg2_default),
              !.regs.gpireg[2] = Bits(gpireg2_default)]

\* a resume callback that never schedules itself again
timer_resume_once(d) == [d EXCEPT !.regs.pmsts = @ \cup Bits(\H8000)]

\* a resume callback that schedules itself again whatever the CPU mode
timer_resume_always(d) ==
    resume_set_delay([d EXCEPT !.regs.pmsts = @ \cup Bits(\H8000)], 50)

\* acpi_timer_resume: the callback of dev->resume_timer
acpi_timer_resume(d) ==
    LET d1 == [d EXCEPT !.regs.pmsts = @ \cup Bits(\H8000)]
    IN IF in_smm THEN resume_set_delay(d1, 50) ELSE d1

\* a speed change that re-arms with the clock scaled by the ratio in force
\* before the change
speed_changed_stale(d, ratio) ==
    LET timer_enabled == d.timer.enabled
        d1 == timer_stop(d)
    IN IF timer_enabled
       THEN timer_on_auto(d1, overflow_period(d1.regs.timer32, acpi_clock_get))
       ELSE d1

\* acpi_speed_changed: ratio is the new ACPI_TIMER_FREQ / cpuclock, which the
\* function stores in cpu_to_acpi before it reads the clock
acpi_speed_changed(d, ratio) ==
    LET timer_enabled == d.timer.enabled
        d1 == timer_stop(d)
    IN IF timer_enabled
       THEN timer_on_auto(d1, overflow_period(d1.regs.timer32, ScaleTicks(tsc, ratio)))
       ELSE d1

\* acpi_close: smbus_is_ours tells whether the global i2c_smbus still points
\* at this device's bus
acpi_close(d, smbus_is_ours) ==
    LET d1 == IF d.i2c
              THEN Call(IF smbus_is_ours
                        THEN Call(d, <<"i2c_smbus", "NULL">>) ELSE d,
                        <<"i2c_gpio_close">>)
              ELSE d
    IN Call(timer_stop(d1), <<"free">>)

(***************************************************************************)
(* Inputs of the exploration                                               *)
(***************************************************************************)
\* guest byte writes to the common block: status acknowledge, enables,
\* SCI_EN / GBL_RLS, every sleep type with SLP_EN, and writes without SLP_EN
CommonInputs ==
    {<<\H00, \H01>>, <<\H00, \H20>>, <<\H01, \Hff>>,
     <<\H02, \H01>>, <<\H02, \Hff>>, <<\H03, \Hff>>,
     <<\H04, \H01>>, <<\H04, \H04>>, <<\H04, \Hff>>,
     <<\H05, \H1c>>, <<\H05, \He7>>, <<\H05, \Hff>>, <<\H06, \Hff>>}
    \cup {<<\H05, 32 + 4 * t>> : t \in 0..7}

ProfileInputs(v) ==
    CASE v = VEN_ALI ->
           {<<\H10, \Hff>>, <<\H18, \Hff>>, <<\H1a, \Hff>>, <<\H1c, \H01>>,
            <<\H1e, \Hff>>, <<\H20, \Hff>>, <<\H30, \Hff>>, <<\H16, \Hff>>,
            <<\H1b, \Hff>>}
      [] v = VEN_INTEL ->
           {<<\H0c, \Hff>>, <<\H0e, \Hff>>, <<\H12, \Hff>>, <<\H18, \H01>>,
            <<\H1c, \Hff>>, <<\H20, \Hff>>, <<\H28, \H03>>, <<\H28, \H01>>,
            <<\H2a, \Hff>>, <<\H2c, \Hff>>, <<\H34, \Ha5>>, <<\H3f, \Hff>>}
      [] v = VEN_INTEL_ICH2 ->
           {<<\H10, \Hff>>, <<\H28, \Hff>>, <<\H2a, \Hff>>, <<\H2e, \Hff>>,
            <<\H30, \H11>>, <<\H30, \Hff>>, <<\H31, \Hff>>, <<\H34, \Hff>>,
            <<\H40, \Hff>>, <<\H44, \Hff>>, <<\H48, \Hff>>, <<\H4c, \Hff>>,
            <<\H4e, \Ha5>>, <<\H60, \H01>>, <<\H42, \H01>>, <<\H46, \Hff>>,
            <<\H50, \H01>>, <<\H2b, \Hff>>}
      [] v = VEN_VIA ->
           {<<\H10, \Hff>>, <<\H20, \Hff>>, <<\H22, \Hff>>, <<\H24, \Hff>>,
            <<\H26, \Hff>>, <<\H28, \Hff>>, <<\H2a, \Hff>>, <<\H2c, \H13>>,
            <<\H2c, \H01>>, <<\H2d, \H01>>, <<\H2f, \Ha5>>, <<\H30, \Hff>>,
            <<\H34, \Hff>>, <<\H38, \Hff>>, <<\H40, \Hff>>, <<\H42, \Hff>>,
            <<\H46, \Hff>>, <<\H50, \Hff>>, <<\H82, \H01>>, <<\H80, \H20>>}
      [] v = VEN_VIA_596B ->
           {<<\H10, \Hff>>, <<\H20, \Hff>>, <<\H22, \Hff>>, <<\H28, \Hff>>,
            <<\H2a, \Hff>>, <<\H2c, \H13>>, <<\H2c, \H01>>, <<\H2d, \H01>>,
            <<\H2f, \Ha5>>, <<\H30, \Hff>>, <<\H34, \Hff>>, <<\H40, \Hff>>,
            <<\H42, \Hff>>, <<\H4c, \Hff>>, <<\H50, \Hff>>, <<\H43, \Hff>>}
      [] OTHER -> {<<\H0c, \Hff>>, <<\H0f, \H01>>}

WriteInputs(v) == CommonInputs \cup ProfileInputs(v)

\* guest byte writes to the auxiliary window of the SMC profile
AuxInputs ==
    {<<\H00, \Hff>>, <<\H02, \Hff>>, <<\H03, \Hff>>, <<\H04, \Hff>>,
     <<\H06, \Hff>>, <<\H07, \H01>>, <<\H07, \H03>>}

\* guest 16-bit writes <<offset, value>>: the common block, every bit set,
\* SCI_EN with a sleep request of each type
WordInputs ==
    {<<\H00, 0..15>>, <<\H02, 0..15>>, <<\H04, {0}>>, <<\H04, 0..15>>}
    \cup {<<\H04, {0, 13} \cup Shl(Bits(t), 10)>> : t \in 0..7}

\* guest 32-bit writes <<offset, value>>; the one at 0x02 sets TMROF_EN and
\* SCI_EN together
LongInputs ==
    {<<\H00, 0..31>>, <<\H02, {0, 16}>>, <<\H04, {0, 2, 13, 16}>>, <<\H30, 0..31>>}

(***************************************************************************)
(* State machine                                                           *)
(***************************************************************************)
\* a handler starts with an empty call log
Begin(d) == [d EXCEPT !.calls = <<>>]

Op(name, addr, val) == [op |-> name, addr |-> addr, val |-> val]

\* the boards the device is built into: acpi_reset tells two of them apart,
\* and only on the VIA 596B profile
Machines(v) == IF v = VEN_VIA_596B THEN {"ficva503a", "p3v4x"} ELSE {"p3v4x"}

\* the device as the chipset leaves it after construction: acpi_init, then the
\* chipset's acpi_set_irq_mode and acpi_set_timer32
Init ==
    /\ \E v \in Vendors, m \in 0..2, t \in BOOLEAN :
          \E machine \in Machines(v) :
             dev = acpi_set_timer32(
                       acpi_set_irq_mode(acpi_init(v, machine), m),
                       t)
    /\ pre = dev
    /\ last = Op("acpi_init", 0, {})
    /\ nops = 0
    /\ tsc = {}
    /\ cpu_to_acpi = [num |-> 3, den |-> 4]
    /\ in_smm = FALSE
    /\ reads = <<>>

Host(d, op) ==
    /\ nops < MaxOps
    /\ dev' = d
    /\ pre' = dev
    /\ last' = op
    /\ nops' = nops + 1

\* acpi_reg_write: a guest byte write into the primary window
RegWrite ==
    /\ \E in \in WriteInputs(dev.vendor) :
          Host(acpi_reg_write(Begin(dev), in[1], Bits(in[2])),
               Op("acpi_reg_write", in[1], Bits(in[2])))
    /\ UNCHANGED <<tsc, cpu_to_acpi, in_smm, reads>>

\* acpi_aux_reg_write: a guest byte write into the auxiliary window
AuxRegWrite ==
    /\ dev.vendor = VEN_SMC
    /\ \E in \in AuxInputs :
          Host(acpi_aux_reg_write(Begin(dev), in[1], Bits(in[2])),
               Op("acpi_aux_reg_write", in[1], Bits(in[2])))
    /\ UNCHANGED <<tsc, cpu_to_acpi, in_smm, reads>>

\* acpi_reg_writew / acpi_aux_reg_writew: a guest 16-bit write
RegWriteW ==
    /\ \/ \E in \in WordInputs :
             Host(acpi_reg_writew(Begin(dev), in[1], in[2]),
                  Op("acpi_reg_writew", in[1], in[2]))
       \/ /\ dev.vendor = VEN_SMC
          /\ \E in \in {<<\H02, 0..15>>, <<\H06, 0..15>>} :
                Host(acpi_aux_reg_writew(Begin(dev), in[1], in[2]),
                     Op("acpi_aux_reg_writew", in[1], in[2]))
    /\ UNCHANGED <<tsc, cpu_to_acpi, in_smm, reads>>

\* acpi_reg_writel / acpi_aux_reg_writel: a guest 32-bit write
RegWriteL ==
    /\ \/ \E in \in LongInputs :
             Host(acpi_reg_writel(Begin(dev), in[1], in[2]),
                  Op("acpi_reg_writel", in[1], in[2]))
       \/ /\ dev.vendor = VEN_SMC
          /\ \E in \in {<<\H00, 0..31>>, <<\H04, 0..31>>} :
                Host(acpi_aux_reg_writel(Begin(dev), in[1], in[2]),
                     Op("acpi_aux_reg_writel", in[1], in[2]))
    /\ UNCHANGED <<tsc, cpu_to_acpi, in_smm, reads>>

\* acpi_update_irq called by the surrounding chipset
UpdateIrq ==
    /\ Host(acpi_update_irq(Begin(dev)), Op("acpi_update_irq", 0, {}))
    /\ UNCHANGED <<tsc, cpu_to_acpi, in_smm, reads>>

\* acpi_raise_smi called by the surrounding chipset
RaiseSmi ==
    /\ \E do_smi \in 0..1 :
          Host(acpi_raise_smi(Begin(dev), do_smi), Op("acpi_raise_smi", do_smi, {}))
    /\ UNCHANGED <<tsc, cpu_to_acpi, in_smm, reads>>

\* the device's reset entry
Reset ==
    /\ Host(acpi_reset(Begin(dev)), Op("acpi_reset", 0, {}))
    /\ UNCHANGED <<tsc, cpu_to_acpi, in_smm, reads>>

\* the overflow timer expires: one-shot, the timer layer disables it and
\* runs acpi_timer_overflow
TimerOverflow ==
    /\ dev.timer.enabled
    /\ dev' = acpi_timer_overflow([Begin(dev) EXCEPT !.timer.enabled = FALSE])
    /\ pre' = dev
    /\ last' = Op("acpi_timer_overflow", 0, {})
    /\ UNCHANGED <<nops, tsc, cpu_to_acpi, in_smm, reads>>

\* the resume timer expires and runs acpi_timer_resume
TimerResume ==
    /\ dev.resume_timer.enabled
    /\ dev' = acpi_timer_resume([Begin(dev) EXCEPT !.resume_timer.enabled = FALSE])
    /\ pre' = dev
    /\ last' = Op("acpi_timer_resume", 0, {})
    /\ UNCHANGED <<nops, tsc, cpu_to_acpi, in_smm, reads>>

\* the CPU runs on: the time stamp counter advances
Tick ==
    /\ nops < MaxOps
    /\ tsc' = BitAdd(tsc, Bits(TscStep), 64)
    /\ nops' = nops + 1
    /\ pre' = dev
    /\ last' = Op("tick", 0, {})
    /\ dev' = Begin(dev)
    /\ UNCHANGED <<cpu_to_acpi, in_smm, reads>>

\* the CPU takes the SMI the last handler raised, or leaves SMM again
SmmSwitch ==
    /\ \/ ~in_smm /\ Called(dev, "smi_raise") /\ in_smm' = TRUE
       \/ in_smm /\ in_smm' = FALSE
    /\ dev' = Begin(dev)
    /\ pre' = dev
    /\ last' = Op("smm", 0, {})
    /\ UNCHANGED <<nops, tsc, cpu_to_acpi, reads>>

Next ==
    \/ RegWrite
    \/ AuxRegWrite
    \/ RegWriteW
    \/ RegWriteL
    \/ UpdateIrq
    \/ RaiseSmi
    \/ Reset
    \/ TimerOverflow
    \/ TimerResume
    \/ Tick
    \/ SmmSwitch

Spec == Init /\ [][Next]_vars

(***************************************************************************)
(* The decoders as functions of the register file: the registers hold what *)
(* hardware events and the chipset have left in them, then one byte write. *)
(***************************************************************************)
\* the size of the primary window, acpi_update_io_mapping
WindowSize(v) ==
    CASE v = VEN_SMC -> \H010
      [] v = VEN_VIA -> \H100
      [] v \in {VEN_INTEL_ICH2, VEN_VIA_596B} -> \H0080
      [] OTHER -> \H040

\* the size of the auxiliary window, acpi_update_aux_io_mapping
AuxWindowSize(v) == IF v = VEN_SMC THEN \H008 ELSE \H000

\* contents of the status registers: none pending, every bit, alternating bits
StsPatterns == {{}, 0..31, {i \in 0..31 : i % 2 = 0}, {i \in 0..31 : i % 2 = 1}}

ProbeVals == {\H00, \H01, \H24, \H5a, \H80, \Hff}

\* the status registers hold pattern p, each in its own width
WithStatus(d, p) ==
    [d EXCEPT !.regs.pmsts = Trunc(p, 16), !.regs.gpsts = Trunc(p, 16),
              !.regs.gpsts1 = Trunc(p, 16), !.regs.gpscists = Trunc(p, 16),
              !.regs.devact_sts = Trunc(p, 16), !.regs.extiotrapsts = Trunc(p, 8),
              !.regs.glbsts = p, !.regs.devsts = p, !.regs.smi_sts = p,
              !.regs.padsts = p]

\* contents of PMEN: nothing enabled, the overflow interrupt, every valid bit
EnPatterns == {{}, TMROF_EN, Bits(\H0521)}

InitRegs ==
    /\ \E v \in Vendors, p \in StsPatterns, e \in EnPatterns, m \in 0..2,
          t \in BOOLEAN :
          dev = [WithStatus(acpi_set_timer32(
                                acpi_set_irq_mode(acpi_init(v, "p3v4x"), m), t), p)
                    EXCEPT !.regs.pmen = e]
    /\ pre = dev
    /\ last = Op("acpi_init", 0, {})
    /\ nops = 0
    /\ tsc \in {{}, Bits(TscStep)}
    /\ cpu_to_acpi = [num |-> 3, den |-> 4]
    /\ in_smm = FALSE
    /\ reads = <<>>

ProbeWrite ==
    /\ nops = 0
    /\ \E addr \in 0..(WindowSize(dev.vendor) - 1), v \in ProbeVals :
          Host(acpi_reg_write(Begin(dev), addr, Bits(v)),
               Op("acpi_reg_write", addr, Bits(v)))
    /\ UNCHANGED <<tsc, cpu_to_acpi, in_smm, reads>>

ProbeAuxWrite ==
    /\ nops = 0
    /\ \E addr \in 0..(AuxWindowSize(dev.vendor) - 1), v \in ProbeVals :
          Host(acpi_aux_reg_write(Begin(dev), addr, Bits(v)),
               Op("acpi_aux_reg_write", addr, Bits(v)))
    /\ UNCHANGED <<tsc, cpu_to_acpi, in_smm, reads>>

ProbeUpdateIrq ==
    /\ nops = 0
    /\ Host(acpi_update_irq(Begin(dev)), Op("acpi_update_irq", 0, {}))
    /\ UNCHANGED <<tsc, cpu_to_acpi, in_smm, reads>>

\* the chipset calls acpi_update_irq a second time, nothing else in between
ProbeUpdateIrqAgain ==
    /\ nops = 1
    /\ last.op = "acpi_update_irq"
    /\ Host(acpi_update_irq(Begin(dev)), Op("acpi_update_irq", 0, {}))
    /\ UNCHANGED <<tsc, cpu_to_acpi, in_smm, reads>>

\* values of the 16-bit and 32-bit probes: every bit, and a mixed pattern
WideVals == {0..31, {0, 2, 5, 8, 11, 14, 17, 18, 21, 24, 28, 30}}

\* acpi_reg_writew and acpi_reg_writel at every offset of the window
ProbeWriteWide ==
    /\ nops = 0
    /\ \E addr \in 0..(WindowSize(dev.vendor) - 1), v \in WideVals :
          \/ Host(acpi_reg_writew(Begin(dev), addr, Trunc(v, 16)),
                  Op("acpi_reg_writew", addr, Trunc(v, 16)))
          \/ Host(acpi_reg_writel(Begin(dev), addr, v),
                  Op("acpi_reg_writel", addr, v))
    /\ UNCHANGED <<tsc, cpu_to_acpi, in_smm, reads>>

\* acpi_reg_readw and acpi_reg_readl at every offset of the window; last.val
\* holds what the guest reads
ProbeReadWide ==
    /\ nops = 0
    /\ \E addr \in 0..(WindowSize(dev.vendor) - 1) :
          \/ Host(Begin(dev), Op("acpi_reg_readw", addr, acpi_reg_readw(dev, addr)))
          \/ Host(Begin(dev), Op("acpi_reg_readl", addr, acpi_reg_readl(dev, addr)))
    /\ UNCHANGED <<tsc, cpu_to_acpi, in_smm, reads>>

NextRegs ==
    \/ ProbeWrite
    \/ ProbeAuxWrite
    \/ ProbeUpdateIrq
    \/ ProbeUpdateIrqAgain
    \/ ProbeWriteWide
    \/ ProbeReadWide

SpecRegs == InitRegs /\ [][NextRegs]_vars

(***************************************************************************)
(* The PM timer against the reference clock: the time stamp counter starts *)
(* anywhere in the counter's period and the CPU speed may change.          *)
(***************************************************************************)
\* operations per run of the timer exploration
MaxTimerOps == 3
\* 32-bit reads of the PM timer kept in the history
MaxReads == 2

\* values of ACPI_TIMER_FREQ / cpuclock
Ratios == {[num |-> 3, den |-> 4], [num |-> 1, den |-> 2]}

\* time stamp counts at the start: zero, and counts that put the PM timer just
\* below and above bit 23, bit 24, bit 31 and bit 32
TscStarts == {{}, 0..23, 0..24, 0..31, 0..32, {2, 33}}

\* reference ticks between two guest accesses
Advances == {1, 1000000}

\* guest byte writes that drive the overflow interrupt: TMROF_EN, the TMROF_STS
\* acknowledge, SCI_EN
TimerInputs == {<<\H02, \H01>>, <<\H00, \H01>>, <<\H04, \H01>>}

InitTimer ==
    /\ \E v \in Vendors, t \in BOOLEAN :
          dev = acpi_set_timer32(acpi_init(v, "p3v4x"), t)
    /\ pre = dev
    /\ last = Op("acpi_init", 0, {})
    /\ nops = 0
    /\ tsc \in TscStarts
    /\ cpu_to_acpi \in Ratios
    /\ in_smm = FALSE
    /\ reads = <<>>

TimerHost(d, op) ==
    /\ nops < MaxTimerOps
    /\ dev' = d
    /\ pre' = dev
    /\ last' = op
    /\ nops' = nops + 1

\* acpi_reg_read of one byte of PMTMR; last.val is the byte read
TimerRead ==
    /\ \E addr \in \H08..\H0b :
          TimerHost(Begin(dev), Op("acpi_reg_read", addr, acpi_reg_read(dev, addr)))
    /\ UNCHANGED <<tsc, cpu_to_acpi, in_smm, reads>>

\* acpi_reg_readl of PMTMR; the value is kept with the clock it was read at
TimerReadL ==
    /\ Len(reads) < MaxReads
    /\ LET ret == acpi_reg_readl(dev, \H08)
       IN /\ TimerHost(Begin(dev), Op("acpi_reg_readl", \H08, ret))
          /\ reads' = Append(reads, [val |-> ret, tsc |-> tsc, ratio |-> cpu_to_acpi])
    /\ UNCHANGED <<tsc, cpu_to_acpi, in_smm>>

\* the CPU runs on between two accesses
Advance ==
    /\ \E D \in Advances :
          /\ tsc' = BitAdd(tsc, Bits(D), 64)
          /\ TimerHost(Begin(dev), Op("advance", D, {}))
    /\ UNCHANGED <<cpu_to_acpi, in_smm, reads>>

\* acpi_speed_changed: the host changes the CPU clock
SpeedChanged ==
    /\ \E ratio \in Ratios :
          /\ cpu_to_acpi' = ratio
          /\ TimerHost(acpi_speed_changed(Begin(dev), ratio),
                       Op("acpi_speed_changed", 0, {}))
    /\ UNCHANGED <<tsc, in_smm, reads>>

TimerWrite ==
    /\ \E in \in TimerInputs :
          TimerHost(acpi_reg_write(Begin(dev), in[1], Bits(in[2])),
                    Op("acpi_reg_write", in[1], Bits(in[2])))
    /\ UNCHANGED <<tsc, cpu_to_acpi, in_smm, reads>>

NextTimer ==
    \/ TimerRead
    \/ TimerReadL
    \/ Advance
    \/ SpeedChanged
    \/ TimerWrite
    \/ TimerOverflow

SpecTimer == InitTimer /\ [][NextTimer]_vars

(***************************************************************************)
(* SMI generation and the resume callback: a freshly constructed device,   *)
(* the guest writes that enable, lock and acknowledge SMIs or put the      *)
(* machine to sleep, and the chipset's SMI requests.                       *)
(***************************************************************************)
\* operations per run of the SMI exploration
MaxSmiOps == 3

\* guest byte writes <<offset, value>>: the SMI enables of the profile, a
\* suspend request of each sleep type the profiles map to a suspend, the
\* acknowledge of the resume status
SmiInputs(v) ==
    (CASE v \in {VEN_VIA, VEN_VIA_596B} ->
            {<<\H2c, \H01>>, <<\H2c, \H11>>, <<\H2c, \H00>>, <<\H2d, \H01>>}
       [] v = VEN_INTEL -> {<<\H28, \H01>>, <<\H28, \H00>>, <<\H2a, \H01>>}
       [] v = VEN_INTEL_ICH2 ->
            {<<\H30, \H01>>, <<\H30, \H00>>, <<\H28, \Hff>>, <<\H30, \H15>>,
             <<\H04, \H04>>}
       [] v = VEN_ALI -> {<<\H1e, \H01>>, <<\H04, \H04>>, <<\H28, \Hff>>}
       [] OTHER -> {<<\H04, \H04>>})
    \cup {<<\H05, \H24>>, <<\H05, \H28>>, <<\H01, \H80>>}

\* guest byte writes to the auxiliary window of the SMC profile: the
\* miscellaneous control register
SmiAuxInputs == {<<\H07, \H01>>, <<\H07, \H00>>, <<\H06, \H01>>}

SmiHost(d, op) ==
    /\ nops < MaxSmiOps
    /\ dev' = d
    /\ pre' = dev
    /\ last' = op
    /\ nops' = nops + 1

SmiWrite ==
    /\ \E in \in SmiInputs(dev.vendor) :
          SmiHost(acpi_reg_write(Begin(dev), in[1], Bits(in[2])),
                  Op("acpi_reg_write", in[1], Bits(in[2])))
    /\ UNCHANGED <<tsc, cpu_to_acpi, in_smm, reads>>

SmiAuxWrite ==
    /\ dev.vendor = VEN_SMC
    /\ \E in \in SmiAuxInputs :
          SmiHost(acpi_aux_reg_write(Begin(dev), in[1], Bits(in[2])),
                  Op("acpi_aux_reg_write", in[1], Bits(in[2])))
    /\ UNCHANGED <<tsc, cpu_to_acpi, in_smm, reads>>

\* acpi_raise_smi called by the surrounding chipset; last.addr is do_smi
SmiRequest ==
    /\ \E do_smi \in 0..1 :
          SmiHost(acpi_raise_smi(Begin(dev), do_smi),
                  Op("acpi_raise_smi", do_smi, {}))
    /\ UNCHANGED <<tsc, cpu_to_acpi, in_smm, reads>>

NextSmi ==
    \/ SmiWrite
    \/ SmiAuxWrite
    \/ SmiRequest
    \/ TimerResume
    \/ SmmSwitch

SpecSmi == Init /\ [][NextSmi]_vars

\* the CPU returns from system management mode
LeaveSmm == in_smm /\ SmmSwitch

\* the same machine with its scheduling: the timer layer delivers a pending
\* resume callback, and an SMI handler returns
SpecResume ==
    /\ Init
    /\ [][NextSmi]_vars
    /\ WF_vars(TimerResume)
    /\ WF_vars(LeaveSmm)

(***************************************************************************)
(* The I/O windows: the chipset moves, enables and disables them as the    *)
(* guest programs the base address and enable bits of the power-management *)
(* function.                                                               *)
(***************************************************************************)
\* window updates per run
MaxIoOps == 3

\* base addresses the chipset passes: none, two apart, two overlapping
IoBases == {\H0000, \H4000, \H4040, \H5000}

\* the chipset's enable argument: a masked configuration bit
IoEnables == {\H00, \H01, \H80}

\* an update that registers the new window without taking the old one off
update_io_without_remove(d, base, chipset_en) ==
    LET size == WindowSize(d.vendor)
        d2 == [d EXCEPT !.io_base = base]
    IN IF chipset_en # 0 /\ d2.io_base # \H0000
       THEN io_sethandler(d2, d2.io_base, size, "acpi_reg")
       ELSE d2

acpi_update_io_mapping(d, base, chipset_en) ==
    LET size == WindowSize(d.vendor)
        d1 == IF d.io_base # \H0000
              THEN io_removehandler(d, d.io_base, size, "acpi_reg")
              ELSE d
        d2 == [d1 EXCEPT !.io_base = base]
    IN IF chipset_en # 0 /\ d2.io_base # \H0000
       THEN io_sethandler(d2, d2.io_base, size, "acpi_reg")
       ELSE d2

acpi_update_aux_io_mapping(d, base, chipset_en) ==
    LET size == AuxWindowSize(d.vendor)
        d1 == IF d.aux_io_base # \H0000
              THEN io_removehandler(d, d.aux_io_base, size, "acpi_aux_reg")
              ELSE d
        d2 == [d1 EXCEPT !.aux_io_base = base]
    IN IF chipset_en # 0 /\ d2.aux_io_base # \H0000
       THEN io_sethandler(d2, d2.aux_io_base, size, "acpi_aux_reg")
       ELSE d2

IoHost(d, op) ==
    /\ nops < MaxIoOps
    /\ dev' = d
    /\ pre' = dev
    /\ last' = op
    /\ nops' = nops + 1

\* the chipset remaps the primary window
UpdateIoMapping ==
    /\ \E base \in IoBases, en \in IoEnables :
          IoHost(acpi_update_io_mapping(Begin(dev), base, en),
                 Op("acpi_update_io_mapping", base, Bits(en)))
    /\ UNCHANGED <<tsc, cpu_to_acpi, in_smm, reads>>

\* the chipset remaps the auxiliary window
UpdateAuxIoMapping ==
    /\ \E base \in IoBases, en \in IoEnables :
          IoHost(acpi_update_aux_io_mapping(Begin(dev), base, en),
                 Op("acpi_update_aux_io_mapping", base, Bits(en)))
    /\ UNCHANGED <<tsc, cpu_to_acpi, in_smm, reads>>

NextIo ==
    \/ UpdateIoMapping
    \/ UpdateAuxIoMapping

SpecIo == Init /\ [][NextIo]_vars

(***************************************************************************)
(* Reset of a configured device: the chipset has set the GPIO defaults and *)
(* mapped the window, the guest has written a register, then the device is *)
(* reset.                                                                  *)
(***************************************************************************)
\* the GPIO defaults a board configures: <<GPIREG[2], GPOREG[0..3]>>
GpioDefaults == {<<\H00, \H00, \H00, \H00, \H00>>, <<\Hf1, \Hff, \Hbf, \Hff, \H7f>>}

InitReset ==
    /\ \E v \in Vendors, m \in 0..2, t \in BOOLEAN, g \in GpioDefaults :
          \E machine \in Machines(v) :
             dev = Begin(acpi_update_io_mapping(
                       acpi_init_gporeg(
                           acpi_set_gpireg2_default(
                               acpi_set_timer32(
                                   acpi_set_irq_mode(acpi_init(v, machine), m), t),
                               g[1]),
                           g[2], g[3], g[4], g[5]),
                       \H4000, 1))
    /\ pre = dev
    /\ last = Op("acpi_init", 0, {})
    /\ nops = 0
    /\ tsc = {}
    /\ cpu_to_acpi = [num |-> 3, den |-> 4]
    /\ in_smm = FALSE
    /\ reads = <<>>

NextReset ==
    \/ RegWrite
    \/ AuxRegWrite
    \/ RegWriteL
    \/ Reset

SpecReset == InitReset /\ [][NextReset]_vars

(***************************************************************************)
(* Teardown: the guest's byte writes and the two callbacks, then the       *)
(* device is closed and its memory freed.                                  *)
(***************************************************************************)
\* the device has not been closed
Open == last.op \notin {"acpi_close", "acpi_timer_resume after free"}

\* the device's close entry: no host operation follows it
Close ==
    /\ Open
    /\ \E smbus_is_ours \in BOOLEAN :
          dev' = acpi_close(Begin(dev), smbus_is_ours)
    /\ pre' = dev
    /\ last' = Op("acpi_close", 0, {})
    /\ nops' = MaxOps
    /\ UNCHANGED <<tsc, cpu_to_acpi, in_smm, reads>>

\* the timer layer delivers a resume callback that was still scheduled when
\* the device was freed: the callback works on freed memory, which may still
\* hold the device or may hold anything else
DanglingResume ==
    /\ ~Open
    /\ dev.resume_timer.enabled
    /\ \E intact \in BOOLEAN :
          dev' = IF intact
                 THEN acpi_timer_resume(
                          [Begin(dev) EXCEPT !.resume_timer.enabled = FALSE])
                 ELSE Call([Begin(dev) EXCEPT !.resume_timer.enabled = FALSE],
                           <<"undefined">>)
    /\ pre' = dev
    /\ last' = Op("acpi_timer_resume after free", 0, {})
    /\ UNCHANGED <<nops, tsc, cpu_to_acpi, in_smm, reads>>

\* the handlers that run while the device exists
WriteBeforeClose == Open /\ RegWrite

OverflowBeforeClose == Open /\ TimerOverflow

ResumeBeforeClose == Open /\ TimerResume

NextClose ==
    \/ WriteBeforeClose
    \/ OverflowBeforeClose
    \/ ResumeBeforeClose
    \/ Close
    \/ DanglingResume

SpecClose == Init /\ [][NextClose]_vars

(***************************************************************************)
(* Claims                                                                  *)
(***************************************************************************)
\* the status registers of a profile's primary window:
\* <<register, first offset, bytes, clearable mask>>
StatusRegs(v) ==
    {<<"pmsts", \H00, 2, Bits(\H8d31)>>}
    \cup CASE v = VEN_ALI ->
                {<<"gpsts", \H18, 2, Bits(\H0d07)>>, <<"gpsts1", \H1c, 2, Bits(\H0c01)>>}
           [] v = VEN_INTEL ->
                {<<"gpsts", \H0c, 2, Bits(\H0f81)>>, <<"glbsts", \H18, 2, Bits(\H0d27)>>,
                 <<"devsts", \H1c, 4, Bits(\H3fff0fff)>>}
           [] v = VEN_INTEL_ICH2 ->
                {<<"gpsts", \H28, 2, Bits(\H09fb)>>, <<"gpsts1", \H2c, 2, Bits(\H09fb)>>,
                 <<"smi_sts", \H34, 4, Bits(\H0001ff7c)>>,
                 <<"devact_sts", \H44, 2, Bits(\H3fef)>>}
           [] v = VEN_VIA ->
                {<<"gpsts", \H20, 2, Bits(\H03ff)>>, <<"glbsts", \H28, 2, Bits(\H007f)>>,
                 <<"padsts", \H30, 4, Bits(\H000000fd)>>}
           [] v = VEN_VIA_596B ->
                {<<"gpsts", \H20, 2, Bits(\H03ff)>>, <<"glbsts", \H28, 2, Bits(\Hfdff)>>,
                 <<"padsts", \H30, 4, Bits(\H000007ff)>>,
                 <<"extiotrapsts", \H40, 1, Bits(\H13)>>}
           [] OTHER -> {}

\* the status registers of the auxiliary window
AuxStatusRegs(v) ==
    IF v = VEN_SMC
    THEN {<<"gpscists", \H00, 2, Bits(\H000c)>>, <<"glbsts", \H04, 2, Bits(\H001f)>>}
    ELSE {}

\* the status registers the last write addressed, with the lane it wrote
WrittenStatus ==
    {e \in (IF last.op = "acpi_reg_write" THEN StatusRegs(dev.vendor)
            ELSE IF last.op = "acpi_aux_reg_write" THEN AuxStatusRegs(dev.vendor)
            ELSE {}) :
        last.addr \in e[2]..(e[2] + e[3] - 1)}

WrittenBits(e) == Shl(last.val, 8 * (last.addr - e[2]))

\* C1: a byte write of val to a byte lane of a status register leaves
\* new = old & ~((val << lane_shift) & mask): it sets no bit and changes no
\* bit outside the clearable mask.
C1_WriteOneToClear ==
    \A e \in WrittenStatus :
        /\ dev.regs[e[1]] = pre.regs[e[1]] \ (WrittenBits(e) \cap e[4])
        /\ dev.regs[e[1]] \subseteq pre.regs[e[1]]
        /\ (pre.regs[e[1]] \ dev.regs[e[1]]) \subseteq e[4]

\* a write that clears a pending bit and is refused a bit outside the mask
C1_Witness ==
    \E e \in WrittenStatus :
        /\ e[1] # "pmsts"
        /\ (pre.regs[e[1]] \cap WrittenBits(e)) \cap e[4] # {}
        /\ (dev.regs[e[1]] \cap WrittenBits(e)) \ e[4] # {}

\* the enable registers of a profile with the valid-bits mask of their write
\* handler: <<register, mask>>
EnableRegs(v) ==
    {<<"pmen", Bits(\H0521)>>, <<"pmcntrl", Bits(\H3f07)>>}
    \cup CASE v = VEN_ALI ->
                {<<"gpen", Bits(\H0d07)>>, <<"gpen1", Bits(\H0c01)>>}
           [] v = VEN_INTEL ->
                {<<"gpen", Bits(\H0f01)>>, <<"glben", Bits(\H8d1f)>>}
           [] v = VEN_INTEL_ICH2 ->
                {<<"gpen", Bits(\H097d)>>, <<"gpen1", Bits(\H097d)>>,
                 <<"smi_en", Bits(\H0000867f)>>, <<"devtrap_en", Bits(\H3c2f)>>}
           [] v = VEN_VIA ->
                {<<"gpscien", Bits(\H03ff)>>, <<"gpsmien", Bits(\H03ff)>>,
                 <<"glben", Bits(\H007f)>>, <<"gptren", Bits(\H000000d9)>>,
                 <<"paden", Bits(\H000000fd)>>}
           [] v = VEN_VIA_596B ->
                {<<"gpscien", Bits(\H03ff)>>, <<"gpsmien", Bits(\H03ff)>>,
                 <<"glben", Bits(\Hfdff)>>, <<"gptren", Bits(\H000000d9)>>,
                 <<"paden", Bits(\H000007ff)>>, <<"extiotrapen", Bits(\H13)>>}
           [] OTHER ->
                {<<"gpscien", Bits(\H3fff)>>, <<"glben", Bits(\H03)>>}

\* C2: in every reachable state PMEN has no bit outside 0x0521, PMCNTRL has no
\* bit outside 0x3f07, and every enable register of the profile has no bit
\* outside the valid-bits mask its write handler applies.
C2_ValidBits ==
    \A e \in EnableRegs(dev.vendor) : dev.regs[e[1]] \subseteq e[2]

\* a guest write of all ones has reached an enable register and left it
\* holding exactly its mask within the written byte
C2_Witness ==
    /\ last.op \in {"acpi_reg_write", "acpi_aux_reg_write"}
    /\ last.val = BYTE
    /\ \E e \in EnableRegs(dev.vendor) :
          /\ e[1] \notin {"pmen", "pmcntrl"}
          /\ dev.regs[e[1]] # pre.regs[e[1]]
          /\ dev.regs[e[1]] # {}
          /\ \E k \in {0, 8, 16, 24} :
                /\ ~(Shl(BYTE, k) \subseteq e[2])
                /\ dev.regs[e[1]] \cap Shl(BYTE, k) = e[2] \cap Shl(BYTE, k)
                /\ dev.regs[e[1]] \cap Shl(BYTE, k) # {}
    /\ pre.regs.pmen # {}

\* the offsets a profile's read or write decoder has a case for, with the
\* common block (PMSTS, PMEN, PMCNTRL, PMTMR) every profile falls back to
DefinedOffsets(v) ==
    (\H00..\H05) \cup (\H08..\H0b)
    \cup CASE v = VEN_ALI -> (\H10..\H15) \cup (\H18..\H27) \cup {\H30}
           [] v = VEN_INTEL ->
                (\H0c..\H13) \cup (\H18..\H19) \cup (\H1c..\H21) \cup (\H28..\H32)
                \cup (\H34..\H37)
           [] v = VEN_INTEL_ICH2 ->
                (\H10..\H13) \cup (\H28..\H37) \cup (\H40..\H41) \cup (\H44..\H45)
                \cup (\H48..\H49) \cup (\H4c..\H4e) \cup (\H60..\H70)
           [] v = VEN_VIA ->
                (\H10..\H13) \cup (\H20..\H2d) \cup (\H2f..\H3b)
                \cup {\H40, \H42, \H44} \cup (\H46..\H49)
           [] v = VEN_VIA_596B ->
                (\H10..\H13) \cup (\H20..\H2d) \cup (\H2f..\H3b)
                \cup {\H40, \H42} \cup (\H44..\H45) \cup (\H48..\H4f)
           [] OTHER -> {}

UndefinedOffsets(v) == (0..(WindowSize(v) - 1)) \ DefinedOffsets(v)

\* what a guest or the board can observe of the device besides the call log
Visible(d) == <<d.regs, d.irq, d.timer, d.resume_timer, d.apm_do_smi,
                d.i2c_scl, d.i2c_sda>>

\* C3: an offset inside the profile's window that is none of its defined
\* register offsets reads as the fixed default 0x00 (or 0xff), and a write to
\* it changes no register, no IRQ or SMI line and no timer.
C3_UndefinedInert ==
    /\ \A O \in UndefinedOffsets(dev.vendor) :
          acpi_reg_read(dev, O) \in {{}, BYTE}
    /\ (last.op = "acpi_reg_write" /\ last.addr \in UndefinedOffsets(dev.vendor))
          => /\ Visible(dev) = Visible(pre)
             /\ ~Called(dev, "smi_raise")
             /\ ~Called(dev, "pci_set")
             /\ ~Called(dev, "pci_clear")
             /\ ~Called(dev, "timer_on_auto")
             /\ ~Called(dev, "timer_stop")

\* the calls of the last handler that drive an IRQ line
LineCalls == SelectSeq(dev.calls, LAMBDA c : c[1] \in {"pci_set", "pci_clear"})

\* the line irq_mode selects: mode 1 the PCI slot/pin, mode 2 the shared
\* MIRQ 5, any other mode the routed line 0xf0 | irq_line
ModeLine(m) == IF m = 1 THEN "INTX" ELSE IF m = 2 THEN "MIRQ5" ELSE "MIRQ_ROUTED"

\* C4: acpi_update_irq computes sci_level = PMSTS & PMEN & (RTC_EN | PWRBTN_EN
\* | GBL_EN | TMROF_EN), ORs in PMSTS & BM_STS on the SMC profile only, asserts
\* the line when the level is non-zero and deasserts it otherwise, and acts on
\* exactly the one line irq_mode selects.
C4_UpdateIrqLevel ==
    last.op = "acpi_update_irq" =>
        LET level == ((pre.regs.pmsts \cap pre.regs.pmen) \cap Bits(\H0521))
                     \cup (IF dev.vendor = VEN_SMC
                           THEN pre.regs.pmsts \cap Bits(\H0010) ELSE {})
            line  == ModeLine(dev.irq_mode)
        IN /\ LineCalls = << <<(IF level # {} THEN "pci_set" ELSE "pci_clear"), line>> >>
           /\ dev.irq[line] = (level # {})
           /\ \A l \in IrqLines \ {line} : dev.irq[l] = pre.irq[l]
           /\ dev.regs = pre.regs

\* the line was asserted for an enabled pending event, and on SMC for bus
\* master activity alone
C4_Witness ==
    /\ last.op = "acpi_update_irq"
    /\ dev.irq[ModeLine(dev.irq_mode)]
    /\ dev.irq_mode = 2
    /\ dev.vendor = VEN_SMC
    /\ pre.regs.pmsts \cap pre.regs.pmen = {}
    /\ ~pre.irq[ModeLine(dev.irq_mode)]

\* the calls of the last handler that arm or cancel the overflow timer
TimerCalls == SelectSeq(dev.calls, LAMBDA c : c[1] \in {"timer_on_auto", "timer_stop"})

\* acpi_update_irq called on its own
RearmAfterUpdateIrq ==
    last.op = "acpi_update_irq" =>
        LET wanted == 0 \in pre.regs.pmen /\ 0 \notin pre.regs.pmsts
        IN /\ dev.timer.enabled = wanted
           /\ wanted => /\ dev.timer.period = acpi_get_overflow_period(dev)
                        /\ TimerCalls = << <<"timer_on_auto", dev.timer.period>> >>
           /\ ~wanted => TimerCalls = << <<"timer_stop">> >>

\* acpi_update_irq called from within any handler
RearmAfterAnyHandler ==
    Called(dev, "acpi_update_irq") =>
        (dev.timer.enabled = (0 \in dev.regs.pmen /\ 0 \notin dev.regs.pmsts))

\* C5: after every acpi_update_irq call, on every profile, the overflow timer
\* is armed, at the current overflow period, if and only if TMROF_EN is set in
\* PMEN and TMROF_STS is clear in PMSTS; otherwise the wake-up is cancelled.
C5_RearmCondition == RearmAfterUpdateIrq /\ RearmAfterAnyHandler

\* the timer is armed part of the way into a counter period
C5_Witness ==
    /\ last.op = "acpi_update_irq"
    /\ 0 \in pre.regs.pmen
    /\ 0 \notin pre.regs.pmsts
    /\ dev.timer.enabled
    /\ tsc # {}
    /\ dev.timer.period \notin {{23}, {31}}

\* a byte write to the high byte of PMCNTRL with SLP_EN set
SleepWrite == last.op = "acpi_reg_write" /\ last.addr = \H05 /\ 5 \in last.val

\* the entry of the profile's sleep-type table the last write selected
SleepEntry == suspend_types(dev.vendor)[sus_index(last.val) + 1]

\* SLP_SMI_EN was set on an ICH2 when the last handler started
SlpSmiEnabled == dev.vendor = VEN_INTEL_ICH2 /\ 4 \in pre.regs.smi_en

\* the collaborators of the suspend sequence
SleepCollaborators ==
    {"nvr_reg_write", "device_reset_all_pci", "cpu_alt_reset", "pci_reset",
     "keyboard_at_reset", "mem_a20_alt", "mem_a20_recalc", "flushmmucache",
     "resetx86", "plat_pause", "timer_set_delay_u64"}

PowerOffTerminal ==
    /\ CountCalls(dev, "plat_power_off") = 1
    /\ \A c \in SleepCollaborators : ~Called(dev, c)
    /\ dev.resume_timer = pre.resume_timer
    /\ dev.regs = pre.regs

\* C6 as stated: a byte write to offset 0x05 with SLP_EN set and a sleep type
\* whose table entry contains SUS_POWER_OFF calls the platform power-off
\* exactly once, calls no suspend, reset or pause collaborator, schedules no
\* resume and leaves every register, PMCNTRL included, unchanged.
C6_PowerOffTerminal_AsStated ==
    (SleepWrite /\ SUS_POWER_OFF \in SleepEntry) => PowerOffTerminal

\* C6 (amended): the same, on every profile other than ICH2 and on ICH2 while
\* SLP_SMI_EN (SMI_EN bit 4) is clear; with SLP_SMI_EN set the SMI trap comes
\* before the sleep-type decode.
C6_PowerOffTerminal ==
    (SleepWrite /\ SUS_POWER_OFF \in SleepEntry /\ ~SlpSmiEnabled)
        => PowerOffTerminal

\* a power-off write that found PMCNTRL holding bits and would have changed it
C6_Witness ==
    /\ SleepWrite
    /\ SUS_POWER_OFF \in SleepEntry
    /\ ~SlpSmiEnabled
    /\ Called(dev, "plat_power_off")
    /\ pre.regs.pmcntrl # {}
    /\ MergeByte(pre.regs.pmcntrl, last.val, 8, Bits(\H3f07)) # pre.regs.pmcntrl

\* the sleep type that suspends to RAM and resets the PCI bus and the CPU
FullSuspend == {SUS_SUSPEND, SUS_NVR, SUS_RESET_PCI, SUS_RESET_CPU}

\* NVRAM write of 0xff at 0x0f, reset of all PCI devices, alternate reset mode,
\* PCI bus reset, keyboard controller reset, A20 (mem_a20_alt = 0 and the
\* recalculation), cache flush, CPU reset, pause(1), resume timer at 50 us
SuspendCalls ==
    << <<"nvr_reg_write", \H0f, \Hff>>, <<"device_reset_all_pci">>,
       <<"cpu_alt_reset", 0>>, <<"pci_reset">>, <<"keyboard_at_reset">>,
       <<"mem_a20_alt", 0>>, <<"mem_a20_recalc">>, <<"flushmmucache">>,
       <<"resetx86">>, <<"plat_pause", 1>>, <<"timer_set_delay_u64", 50>> >>

\* C7 as stated: a write of SLP_EN with a sleep type whose entry is
\* SUS_SUSPEND | SUS_NVR | SUS_RESET_PCI | SUS_RESET_CPU produces exactly the
\* call sequence SuspendCalls, in that order and with no extra call.
C7_SuspendOrder_AsStated ==
    (SleepWrite /\ SleepEntry = FullSuspend) => dev.calls = SuspendCalls

\* C7 (amended): on ALi, Intel and VIA-596B the write produces exactly
\* SuspendCalls; on ICH2 it does so only while SLP_SMI_EN is clear, and the
\* profile's write hook then appends its acpi_update_irq (one IRQ line call and
\* one overflow timer call) after the sequence.
C7_SuspendOrder ==
    (SleepWrite /\ SleepEntry = FullSuspend /\ ~SlpSmiEnabled) =>
        /\ SubSeq(dev.calls, 1, Len(SuspendCalls)) = SuspendCalls
        /\ dev.resume_timer.enabled
        /\ IF dev.vendor = VEN_INTEL_ICH2
           THEN /\ Len(dev.calls) = Len(SuspendCalls) + 3
                /\ dev.calls[Len(SuspendCalls) + 1] = <<"acpi_update_irq">>
                /\ dev.calls[Len(SuspendCalls) + 2][1] \in {"pci_set", "pci_clear"}
                /\ dev.calls[Len(SuspendCalls) + 3][1] \in {"timer_on_auto", "timer_stop"}
           ELSE dev.calls = SuspendCalls

\* the full suspend has run on a profile without the hook
C7_Witness ==
    /\ SleepWrite
    /\ SleepEntry = FullSuspend
    /\ dev.vendor = VEN_VIA_596B
    /\ Called(dev, "resetx86")
    /\ dev.resume_timer.enabled

\* the calls that power off, suspend, reset or schedule the resume
SleepOrPowerCalls == SleepCollaborators \cup {"plat_power_off"}

\* C8: on ICH2, whenever SMI_EN bit 4 is set, a write to offset 0x05 with
\* SLP_EN set, for every 3-bit sleep type, sets SMI_STS bit 4 and invokes the
\* SMI router, and never calls power-off, pause, NVRAM, PCI or CPU reset nor
\* schedules the resume timer.
C8_SlpSmiTrap ==
    (SleepWrite /\ SlpSmiEnabled) =>
        /\ 4 \in dev.regs.smi_sts
        /\ Called(dev, "acpi_raise_smi")
        /\ \A c \in SleepOrPowerCalls : ~Called(dev, c)
        /\ dev.resume_timer = pre.resume_timer

\* the write took the power-off branch
TookPowerOff == Called(dev, "plat_power_off")

\* C9: after every write to offset 0x04 or 0x05 that does not take the
\* PowerOff branch (idle, suspend sequence and the ICH2 SMI trap alike)
\* PMCNTRL equals ((old with the addressed byte replaced by val) & 0x3f07).
C9_ControlMerge ==
    (last.op = "acpi_reg_write" /\ last.addr \in {\H04, \H05} /\ ~TookPowerOff) =>
        LET lane == 8 * (last.addr - \H04)
        IN dev.regs.pmcntrl =
              ((pre.regs.pmcntrl \ (lane..(lane + 7))) \cup Shl(last.val, lane))
                  \cap Bits(\H3f07)

\* a suspending write replaced the high byte and was refused bits 14 and 15
C9_Witness ==
    /\ SleepWrite
    /\ SUS_SUSPEND \in SleepEntry
    /\ Called(dev, "plat_pause")
    /\ {0, 1, 6, 7} \subseteq last.val
    /\ 11 \in pre.regs.pmcntrl
    /\ 11 \notin dev.regs.pmcntrl
    /\ {8, 9} \subseteq dev.regs.pmcntrl

\* the requests of the last handler to the router
SciRequested == Called(dev, "acpi_update_irq")
SmiRequested == Called(dev, "acpi_raise_smi")

\* C10: the overflow callback sets TMROF_STS; then, if TMROF_EN is set, it
\* requests the SCI (acpi_update_irq) when SCI_EN is set and the SMI
\* (acpi_raise_smi) otherwise, never both; if TMROF_EN is clear it requests
\* neither.
C10_OverflowWake ==
    last.op = "acpi_timer_overflow" =>
        /\ 0 \in dev.regs.pmsts
        /\ dev.regs.pmsts = pre.regs.pmsts \cup {0}
        /\ 0 \in pre.regs.pmen =>
              IF 0 \in pre.regs.pmcntrl
              THEN SciRequested /\ ~SmiRequested
              ELSE SmiRequested /\ ~SciRequested
                    /\ dev.calls[1] = <<"acpi_raise_smi", 1>>
        /\ 0 \notin pre.regs.pmen => ~SciRequested /\ ~SmiRequested

\* the callback ran in SCI mode and asserted the line
C10_Witness ==
    /\ last.op = "acpi_timer_overflow"
    /\ 0 \in pre.regs.pmen
    /\ 0 \in pre.regs.pmcntrl
    /\ SciRequested
    /\ dev.irq[ModeLine(dev.irq_mode)]

\* a guest byte write to the low byte of PMEN that sets TMROF_EN
EnablesOverflow == last.op = "acpi_reg_write" /\ last.addr = \H02 /\ 0 \in last.val

\* the write leaves the timer armed at the period of the clock of that moment
ArmedAtEnable ==
    (EnablesOverflow /\ 0 \notin dev.regs.pmsts) =>
        /\ dev.timer.enabled
        /\ dev.timer.period = acpi_get_overflow_period(dev)

\* the callback finds TMROF_STS clear and sets it, and the timer stays
\* disarmed for as long as TMROF_STS is set
FiresOnce ==
    /\ last.op = "acpi_timer_overflow" =>
          /\ 0 \notin pre.regs.pmsts
          /\ 0 \in dev.regs.pmsts
          /\ ~dev.timer.enabled
    /\ 0 \in dev.regs.pmsts => ~dev.timer.enabled

\* C11: immediately after a PMEN write that sets TMROF_EN while TMROF_STS is
\* clear, the overflow timer is armed with the overflow period of the timer
\* value at that moment; from then until TMROF_STS is next cleared the overflow
\* callback fires at most once, setting TMROF_STS exactly once.
C11_OverflowScheduling == ArmedAtEnable /\ FiresOnce

\* the callback has fired on a timer that was armed part of the way into a
\* period with the overflow interrupt enabled
C11_Witness ==
    /\ last.op = "acpi_timer_overflow"
    /\ 0 \in pre.regs.pmen
    /\ pre.timer.enabled
    /\ pre.timer.period \notin {{}, {23}, {31}}
    /\ 0 \in dev.regs.pmsts
    /\ ~dev.timer.enabled

\* the ticks from the clock to the next multiple of 2^k above it
TicksToNextMultiple(k) == BitSub({k}, Trunc(acpi_clock_get, k), 64)

\* the last handler armed the overflow timer
ArmedNow == Called(dev, "timer_on_auto") /\ dev.timer.enabled

\* C12 as stated: the overflow period is the number of ticks to the next
\* multiple of 0x1000000 (24-bit mode) or 0x100000000 (32-bit mode), and is
\* strictly positive.
C12_PeriodToWrap_AsStated ==
    ArmedNow =>
        /\ dev.timer.period = TicksToNextMultiple(IF dev.regs.timer32 THEN 32 ELSE 24)
        /\ dev.timer.period # {}

\* C12: the overflow period is the number of timer ticks from the current
\* timer value to the next multiple of 0x800000 in 24-bit mode and of
\* 0x80000000 in 32-bit mode (the next change of the counter's top bit), and
\* is strictly positive.
C12_PeriodToTopBit ==
    ArmedNow =>
        /\ dev.timer.period = TicksToNextMultiple(IF dev.regs.timer32 THEN 31 ELSE 23)
        /\ dev.timer.period # {}

\* the timer is armed in 32-bit mode after the counter has wrapped, in the
\* upper half of its range
C12_Witness ==
    /\ ArmedNow
    /\ dev.regs.timer32
    /\ {31, 32} \subseteq acpi_clock_get
    /\ Trunc(acpi_clock_get, 31) # {}

\* the counter width in bits
TimerWidth == IF dev.regs.timer32 THEN 32 ELSE 24

\* C13: a byte read at offset 0x08 + k returns byte k of the reference tick
\* count scaled by the ratio, floored and truncated to the configured width
\* (so offset 0x0b reads 0x00 in 24-bit mode); the value follows the clock at
\* every read.
C13_TimerRead ==
    (last.op = "acpi_reg_read" /\ last.addr \in \H08..\H0b) =>
        /\ last.val = ByteOf(Trunc(ScaleTicks(tsc, cpu_to_acpi), TimerWidth),
                             8 * (last.addr - \H08))
        /\ (~dev.regs.timer32 /\ last.addr = \H0b) => last.val = {}

\* offset 0x0b is read in 24-bit mode while the clock is beyond 2^24
C13_Witness ==
    /\ last.op = "acpi_reg_read"
    /\ last.addr = \H0b
    /\ ~dev.regs.timer32
    /\ acpi_clock_get \cap (24..31) # {}
    /\ last.val = {}

\* two 32-bit reads of the PM timer at the same ratio
TwoReads == Len(reads) = 2 /\ reads[1].ratio = reads[2].ratio

\* the reference ticks between the two reads
ReadAdvance == BitSub(reads[2].tsc, reads[1].tsc, 64)

ReadDifference == BitSub(reads[2].val, reads[1].val, TimerWidth)

ScaledAdvance == Trunc(ScaleTicks(ReadAdvance, reads[1].ratio), TimerWidth)

\* C14 as stated: (read2 - read1) mod 2^width equals floor(D * ratio) mod
\* 2^width for every starting tick count.
C14_TimerDifference_AsStated == TwoReads => ReadDifference = ScaledAdvance

\* C14: for two 32-bit reads of the PM timer separated by D reference ticks
\* at a constant ratio and width, (read2 - read1) mod 2^width is
\* floor(D * ratio) or floor(D * ratio) + 1, mod 2^width.
C14_TimerDifference ==
    TwoReads =>
        ReadDifference \in {ScaledAdvance, BitAdd(ScaledAdvance, {0}, TimerWidth)}

\* scenario A across a wrap of the 32-bit counter
C14_Witness ==
    /\ TwoReads
    /\ dev.vendor = VEN_INTEL_ICH2
    /\ dev.regs.timer32
    /\ ReadAdvance = Bits(1000000)
    /\ 31 \in reads[1].val
    /\ 31 \notin reads[2].val

\* C15: acpi_speed_changed leaves the overflow timer armed if and only if it
\* was armed before, at the overflow period of the clock under the new ratio,
\* and changes no register.
C15_SpeedChanged ==
    last.op = "acpi_speed_changed" =>
        /\ dev.timer.enabled = pre.timer.enabled
        /\ dev.timer.enabled =>
              dev.timer.period =
                  TicksToNextMultiple(IF dev.regs.timer32 THEN 31 ELSE 23)
        /\ dev.regs = pre.regs

\* the speed changes while the timer is armed and the delay changes with it
C15_Witness ==
    /\ last.op = "acpi_speed_changed"
    /\ pre.timer.enabled
    /\ dev.timer.enabled
    /\ dev.timer.period # pre.timer.period

\* acpi_update_irq has run and the handler before it was an acpi_update_irq
\* call too
TwiceInARow ==
    /\ last.op = "acpi_update_irq"
    /\ Len(pre.calls) = 3
    /\ pre.calls[1] = <<"acpi_update_irq">>

\* C16: a second acpi_update_irq call with no register change since the first
\* leaves every IRQ line as the first call left it, and the overflow timer
\* armed or disarmed as the first call left it.
C16_IrqIdempotent ==
    TwiceInARow =>
        /\ dev.regs = pre.regs
        /\ dev.irq = pre.irq
        /\ dev.timer.enabled = pre.timer.enabled

\* both calls assert the line and arm the timer
C16_Witness ==
    /\ TwiceInARow
    /\ nops = 2
    /\ pre.irq[ModeLine(dev.irq_mode)]
    /\ dev.irq[ModeLine(dev.irq_mode)]
    /\ pre.timer.enabled
    /\ dev.timer.enabled

\* the chipset has called acpi_raise_smi; last.addr is the request
SmiRequested_Direct == last.op = "acpi_raise_smi"

Pulsed == Called(dev, "smi_raise")

ViaProfile == dev.vendor \in {VEN_VIA, VEN_VIA_596B}

\* C17: on the VIA and VIA-596B profiles acpi_raise_smi pulses the SMI line
\* only if smi_lock or smi_active is clear, smi_active is true after every
\* pulse, and with smi_lock and smi_active both set the call pulses nothing
\* and changes no state.
C17_SmiLock ==
    (ViaProfile /\ SmiRequested_Direct) =>
        /\ Pulsed => /\ ~pre.regs.smi_lock \/ ~pre.regs.smi_active
                     /\ dev.regs.smi_active
        /\ (pre.regs.smi_lock /\ pre.regs.smi_active) =>
              /\ ~Pulsed
              /\ Visible(dev) = Visible(pre)

\* a request arrives while SMI generation is enabled, locked, and an SMI is
\* still active
C17_Witness ==
    /\ ViaProfile
    /\ SmiRequested_Direct
    /\ last.addr = 1
    /\ 0 \in pre.regs.glbctl
    /\ pre.regs.smi_lock
    /\ pre.regs.smi_active
    /\ ~Pulsed

\* C18: on Intel and ALi, with GLBCTL bit 0 set a non-zero request pulses the
\* SMI line, Intel clears GLBCTL bit 16 and ALi sets the soft-SMI flag; with
\* GLBCTL bit 0 clear nothing is pulsed and GLBCTL is unchanged.  On SMC the
\* pulse is gated by GLBCTL bit 0 alone.
C18_SmiGeneration ==
    SmiRequested_Direct =>
        /\ dev.vendor \in {VEN_INTEL, VEN_ALI} =>
              IF 0 \in pre.regs.glbctl
              THEN /\ last.addr # 0 => Pulsed
                   /\ dev.vendor = VEN_INTEL =>
                         dev.regs.glbctl = pre.regs.glbctl \ {16}
                   /\ dev.vendor = VEN_ALI => dev.regs.ali_soft_smi = {0}
              ELSE /\ ~Pulsed
                   /\ dev.regs.glbctl = pre.regs.glbctl
        /\ dev.vendor = VEN_SMC =>
              (Pulsed <=> (0 \in pre.regs.glbctl /\ last.addr # 0))

\* Intel pulses and drops the pending bit 16 of GLBCTL
C18_Witness ==
    /\ dev.vendor = VEN_INTEL
    /\ SmiRequested_Direct
    /\ last.addr = 1
    /\ {0, 16} \subseteq pre.regs.glbctl
    /\ Pulsed
    /\ 16 \notin dev.regs.glbctl
    /\ 0 \in dev.regs.glbctl

\* C19: in every reachable state of an ICH2 device GLBCTL is 0, and
\* acpi_raise_smi pulses the SMI line if and only if the request is non-zero
\* and SMI_EN bit 0 is set.
C19_Ich2SmiGate ==
    dev.vendor = VEN_INTEL_ICH2 =>
        /\ dev.regs.glbctl = {}
        /\ SmiRequested_Direct =>
              (Pulsed <=> (last.addr # 0 /\ 0 \in pre.regs.smi_en))

\* ICH2 pulses with SMI_EN bit 0 set
C19_Witness ==
    /\ dev.vendor = VEN_INTEL_ICH2
    /\ SmiRequested_Direct
    /\ last.addr = 1
    /\ 0 \in pre.regs.smi_en
    /\ Pulsed

\* C20: every firing of the resume-timer callback sets PMSTS bit 15; fired in
\* SMM it schedules exactly one further firing 50 microseconds later, fired
\* outside SMM it schedules none.
C20_ResumeCallback ==
    last.op = "acpi_timer_resume" =>
        /\ 15 \in dev.regs.pmsts
        /\ dev.regs = [pre.regs EXCEPT !.pmsts = @ \cup {15}]
        /\ IF in_smm
           THEN /\ dev.calls = << <<"timer_set_delay_u64", 50>> >>
                /\ dev.resume_timer = [enabled |-> TRUE, delay |-> 50]
           ELSE /\ dev.calls = <<>>
                /\ ~dev.resume_timer.enabled

\* the callback fires in SMM and schedules itself again
C20_Witness ==
    /\ last.op = "acpi_timer_resume"
    /\ in_smm
    /\ dev.resume_timer.enabled
    /\ CountCalls(dev, "timer_set_delay_u64") = 1

(***************************************************************************)
(* C21: the I/O windows.  After any sequence of acpi_update_io_mapping     *)
(* calls at most one primary window is registered; it is registered        *)
(* exactly when the last call had a non-zero enable and a non-zero base,   *)
(* and then at the recorded base with the profile's size.  Repeating a     *)
(* call adds no second registration and leaves none at an earlier base.    *)
(* The same holds for the auxiliary window of the SMC profile.             *)
(***************************************************************************)
Windows(d, kind) == SelectSeq(d.io, LAMBDA w : w.kind = kind)

\* at most one window of that kind, and it lies at base with that size
WindowAt(d, kind, base, size) ==
    /\ Len(Windows(d, kind)) <= 1
    /\ \A i \in 1..Len(Windows(d, kind)) :
          Windows(d, kind)[i] = Window(base, size, kind)

Requested == last.val # {} /\ last.addr # \H0000

C21_SingleWindow ==
    /\ WindowAt(dev, "acpi_reg", dev.io_base, WindowSize(dev.vendor))
    /\ last.op = "acpi_update_io_mapping" =>
          /\ dev.io_base = last.addr
          /\ Len(Windows(dev, "acpi_reg")) = 1 <=> Requested
          /\ Windows(dev, "acpi_aux_reg") = Windows(pre, "acpi_aux_reg")
    /\ dev.vendor = VEN_SMC =>
          /\ WindowAt(dev, "acpi_aux_reg", dev.aux_io_base, AuxWindowSize(dev.vendor))
          /\ last.op = "acpi_update_aux_io_mapping" =>
                /\ dev.aux_io_base = last.addr
                /\ Len(Windows(dev, "acpi_aux_reg")) = 1 <=> Requested
    /\ last.op = "acpi_update_aux_io_mapping" =>
          Windows(dev, "acpi_reg") = Windows(pre, "acpi_reg")

\* the window was mapped, moved to another base, and the move was repeated
C21_Witness ==
    /\ nops = 3
    /\ last.op = "acpi_update_io_mapping"
    /\ Requested
    /\ pre.io_base = last.addr
    /\ Len(Windows(pre, "acpi_reg")) = 1
    /\ Len(Windows(dev, "acpi_reg")) = 1
    /\ Called(dev, "io_removehandler")
    /\ dev.vendor = VEN_SMC
    /\ Len(Windows(dev, "acpi_aux_reg")) = 0

(***************************************************************************)
(* C22: acpi_reset from any state leaves PMSTS = 0x8000, PMEN and PMCNTRL  *)
(* zero, smi_lock and smi_active false and every other register zero,      *)
(* except GPIREG[0..1] = 0xff, GPIREG[2] and GPOREG[0..3] at the           *)
(* configured defaults and, on the VIA 596B profile, GPO_VAL and GPI_VAL   *)
(* at their defaults.  The profile, the sleep-type table, the IRQ routing  *)
(* configuration and the I/O base are unchanged.                           *)
(***************************************************************************)
\* GPI_VAL after reset: 0xfff57fc1, with bit 2 on the two boards that pull it
GpiDefault(d) ==
    Bits(\H7ff57fc1) \cup {31}
        \cup (IF d.machine \in {"ficva503a", "6via90ap"} THEN {2} ELSE {})

ResetValues(d) ==
    [r \in DOMAIN ZeroRegs |->
        CASE r = "pmsts" -> Bits(\H8000)
          [] r = "gpireg" -> <<Bits(\Hff), Bits(\Hff), d.gpireg2_default>>
          [] r = "gporeg" -> d.gporeg_default
          [] r = "gpo_val" /\ d.vendor = VEN_VIA_596B -> Bits(\H7fffffff)
          [] r = "gpi_val" /\ d.vendor = VEN_VIA_596B -> GpiDefault(d)
          [] OTHER -> ZeroRegs[r]]

\* the registers with the GPIO arrays as sequences, as ResetValues lists them
RegsOf(d) ==
    [d.regs EXCEPT !.gpireg = <<@[0], @[1], @[2]>>,
                   !.gporeg = d.regs.gporeg]

ConfigurationOf(d) ==
    <<d.vendor, suspend_types(d.vendor), d.irq_mode, d.irq_line,
      d.gpireg2_default, d.gporeg_default, d.io_base, d.aux_io_base, d.io>>

C22_Reset ==
    last.op = "acpi_reset" =>
        /\ RegsOf(dev) = ResetValues(pre)
        /\ ConfigurationOf(dev) = ConfigurationOf(pre)

\* a configured VIA 596B device with a 32-bit timer, on a board that pulls
\* GPI bit 2, is reset after the guest set PMEN
C22_Witness ==
    /\ last.op = "acpi_reset"
    /\ dev.vendor = VEN_VIA_596B
    /\ dev.machine = "ficva503a"
    /\ pre.regs.pmen # {}
    /\ dev.regs.pmen = {}
    /\ pre.regs.timer32
    /\ dev.gpireg2_default # {}
    /\ dev.gporeg_default[3] = Bits(\H7f)
    /\ dev.io_base = \H4000
    /\ Len(dev.io) = 1

(***************************************************************************)
(* C23: multi-byte decomposition.  A 32-bit write leaves the device in the *)
(* state four 8-bit writes at the consecutive offsets leave it in, in      *)
(* ascending order, and a 16-bit write in the state of two; a 16- or       *)
(* 32-bit read returns the little-endian concatenation of the 8-bit reads. *)
(* As stated: for every profile and every offset.  As amended: at the      *)
(* offsets the decoders serve for byte accesses only, a wider write stores *)
(* nothing and a wider read returns 0 in that byte.                        *)
(***************************************************************************)
\* the offsets written for size 1 only
ByteOnlyWrite(v) ==
    CASE v = VEN_INTEL -> \H34..\H37
      [] v = VEN_VIA -> {\H2f, \H40, \H42}
      [] v = VEN_VIA_596B -> {\H2f}
      [] OTHER -> {}

\* the offsets read for size 1 only
ByteOnlyRead(v) ==
    CASE v = VEN_INTEL -> (\H30..\H32) \cup (\H34..\H37)
      [] v = VEN_VIA -> {\H2f, \H40, \H42, \H44}
      [] v = VEN_VIA_596B -> {\H2f}
      [] OTHER -> {}

\* n byte writes at the consecutive offsets from addr, lowest first, leaving
\* out the offsets in skip
RECURSIVE ByteWrites(_, _, _, _, _, _)
ByteWrites(d, addr, val, n, k, skip) ==
    IF k >= n THEN d
    ELSE ByteWrites(IF (addr + k) \in skip THEN d
                    ELSE acpi_reg_write(d, addr + k, ByteOf(val, 8 * k)),
                    addr, val, n, k + 1, skip)

\* n byte reads at the consecutive offsets from addr, concatenated lowest
\* first, with 0 for the offsets in skip
RECURSIVE ByteReads(_, _, _, _, _)
ByteReads(d, addr, n, k, skip) ==
    IF k >= n THEN {}
    ELSE (IF (addr + k) \in skip THEN {}
          ELSE Shl(acpi_reg_read(d, addr + k), 8 * k))
         \cup ByteReads(d, addr, n, k + 1, skip)

AccessWidth ==
    CASE last.op \in {"acpi_reg_writew", "acpi_reg_readw"} -> 2
      [] last.op \in {"acpi_reg_writel", "acpi_reg_readl"} -> 4
      [] OTHER -> 0

Decomposes(wskip, rskip) ==
    /\ last.op \in {"acpi_reg_writew", "acpi_reg_writel"} =>
          dev = ByteWrites(Begin(pre), last.addr, last.val, AccessWidth, 0, wskip)
    /\ last.op \in {"acpi_reg_readw", "acpi_reg_readl"} =>
          last.val = ByteReads(pre, last.addr, AccessWidth, 0, rskip)

C23_Decomposition_AsStated == Decomposes({}, {})

C23_Decomposition == Decomposes(ByteOnlyWrite(dev.vendor), ByteOnlyRead(dev.vendor))

\* a 32-bit write that changed PMEN and cleared status bits in both bytes of
\* PMSTS
C23_Witness ==
    /\ last.op = "acpi_reg_writel"
    /\ last.addr = \H00
    /\ pre.regs.pmsts \cap Bits(\H0001) # {}
    /\ pre.regs.pmsts \cap Bits(\H0400) # {}
    /\ dev.regs.pmsts \cap Bits(\H0401) = {}
    /\ pre.regs.pmen = {}
    /\ dev.regs.pmen # {}

(***************************************************************************)
(* C24: with the RTC enable bit set in PMEN, a byte write of 0x01 to the   *)
(* low byte of PMSTS (offset 0x00).  As stated: the configured IRQ line is *)
(* asserted afterwards.  As amended: the write clears TMROF_STS and sets   *)
(* nothing; the line is asserted afterwards exactly when an enabled status *)
(* bit is still pending, as RTC_STS is when it was pending before.         *)
(***************************************************************************)
AcknowledgedLowStatus ==
    /\ last.op = "acpi_reg_write"
    /\ last.addr = \H00
    /\ last.val = Bits(\H01)
    /\ pre.regs.pmen \cap RTC_EN # {}

\* the events still pending and enabled once TMROF_STS is cleared
StillPending ==
    (((pre.regs.pmsts \ TMROF_STS) \cap pre.regs.pmen) \cap Bits(\H0521))
    \cup (IF pre.vendor = VEN_SMC THEN pre.regs.pmsts \cap Bits(\H0010) ELSE {})

C24_RtcScenario_AsStated ==
    AcknowledgedLowStatus => dev.irq[ModeLine(dev.irq_mode)]

C24_RtcScenario ==
    AcknowledgedLowStatus =>
        /\ dev.regs.pmsts = pre.regs.pmsts \ TMROF_STS
        /\ dev.irq[ModeLine(dev.irq_mode)] = (StillPending # {})
        /\ (pre.regs.pmsts \cap Bits(\H0400) # {}) => dev.irq[ModeLine(dev.irq_mode)]

\* RTC_STS and TMROF_STS were pending: the write cleared TMROF_STS and the
\* line is asserted for the RTC event
C24_Witness ==
    /\ AcknowledgedLowStatus
    /\ Bits(\H0401) \subseteq pre.regs.pmsts
    /\ dev.regs.pmsts \cap Bits(\H0401) = Bits(\H0400)
    /\ dev.irq[ModeLine(dev.irq_mode)]
    /\ Called(dev, "pci_set")

(***************************************************************************)
(* C25: a byte write to one byte of a 16-bit enable register replaces that *)
(* byte of the same register, under the register's mask, and nothing else  *)
(* of it: GPE1_EN on ALi (0x1e/0x1f) and on ICH2 (0x2e/0x2f) does not      *)
(* depend on GPE0_EN.                                                      *)
(***************************************************************************)
\* the 16-bit enable registers: <<offset of the low byte, register, mask>>
EnableWords(v) ==
    {<<\H02, "pmen", Bits(\H0521)>>}
    \cup CASE v = VEN_ALI ->
                {<<\H1a, "gpen", Bits(\H0d07)>>, <<\H1e, "gpen1", Bits(\H0c01)>>}
           [] v = VEN_INTEL_ICH2 ->
                {<<\H2a, "gpen", Bits(\H097d)>>, <<\H2e, "gpen1", Bits(\H097d)>>}
           [] OTHER -> {}

C25_EnableByteWrite ==
    last.op = "acpi_reg_write" =>
        \A e \in EnableWords(dev.vendor) :
            last.addr \in {e[1], e[1] + 1} =>
                dev.regs[e[2]] =
                    MergeByte(pre.regs[e[2]], last.val, shift16(last.addr), e[3])

(***************************************************************************)
(* C26: read-after-write.  On every profile, immediately after a byte      *)
(* write of val to an offset of PMEN, of a profile enable register or of   *)
(* the processor control register PCNTRL (0x10..0x13), a byte read of the  *)
(* same offset returns val restricted to that byte of the register's       *)
(* valid-bits mask.                                                        *)
(***************************************************************************)
\* the enable registers and PCNTRL: <<first offset, bytes, valid-bits mask>>
ReadBackRegs(v) ==
    {<<\H02, 2, Bits(\H0521)>>}
    \cup CASE v = VEN_ALI ->
                {<<\H10, 4, Bits(\H00023e1e)>>, <<\H1a, 2, Bits(\H0d07)>>,
                 <<\H1e, 2, Bits(\H0c01)>>}
           [] v = VEN_INTEL ->
                {<<\H0e, 2, Bits(\H0f01)>>, <<\H10, 4, Bits(\H00023e1e)>>,
                 <<\H20, 2, Bits(\H8d1f)>>}
           [] v = VEN_INTEL_ICH2 ->
                {<<\H10, 4, Bits(\H000201fe)>>, <<\H2a, 2, Bits(\H097d)>>,
                 <<\H2e, 2, Bits(\H097d)>>, <<\H30, 4, Bits(\H0000867f)>>,
                 <<\H48, 2, Bits(\H3c2f)>>}
           [] v = VEN_VIA ->
                {<<\H10, 4, Bits(\H0000001e)>>, <<\H22, 2, Bits(\H03ff)>>,
                 <<\H24, 2, Bits(\H03ff)>>, <<\H2a, 2, Bits(\H007f)>>,
                 <<\H34, 4, Bits(\H000000fd)>>, <<\H38, 4, Bits(\H000000d9)>>}
           [] v = VEN_VIA_596B ->
                {<<\H10, 4, Bits(\H0000001e)>>, <<\H22, 2, Bits(\H03ff)>>,
                 <<\H24, 2, Bits(\H03ff)>>, <<\H2a, 2, Bits(\Hfdff)>>,
                 <<\H34, 4, Bits(\H000007ff)>>, <<\H38, 4, Bits(\H000000d9)>>}
           [] OTHER -> {}

C26_ReadAfterWrite ==
    last.op = "acpi_reg_write" =>
        \A e \in ReadBackRegs(dev.vendor) :
            last.addr \in e[1]..(e[1] + e[2] - 1) =>
                acpi_reg_read(dev, last.addr)
                    = last.val \cap ByteOf(e[3], 8 * (last.addr - e[1]))

(***************************************************************************)
(* C27: the global-release hook runs on the post-write value.  On ALi,     *)
(* Intel, VIA, VIA 596B and SMC a write to offset 0x04 after which PMCNTRL *)
(* bit 2 (GBL_RLS) is set sets the profile's BIOS status bit and invokes   *)
(* the SMI router exactly when the matching enable bit is set; a write     *)
(* that leaves bit 2 clear does neither.                                   *)
(***************************************************************************)
\* the BIOS status register of the profile and its bit
BiosStatusReg(d) == IF d.vendor = VEN_ALI THEN d.regs.gpsts1 ELSE d.regs.glbsts

BiosStatusBit(v) == IF v \in {VEN_VIA, VEN_VIA_596B} THEN 5 ELSE 0

\* the enable bit that lets the release raise an SMI
BiosEnabled(d) ==
    CASE d.vendor = VEN_ALI -> 0 \in d.regs.gpen1
      [] d.vendor = VEN_INTEL -> 1 \in d.regs.glben
      [] d.vendor = VEN_SMC -> 0 \in d.regs.glben
      [] OTHER -> 5 \in d.regs.glben

GblRlsWrite ==
    /\ last.op = "acpi_reg_write"
    /\ last.addr = \H04
    /\ dev.vendor \in {VEN_ALI, VEN_INTEL, VEN_VIA, VEN_VIA_596B, VEN_SMC}

C27_GlobalRelease ==
    GblRlsWrite =>
        /\ (2 \in dev.regs.pmcntrl) = (2 \in last.val)
        /\ IF 2 \in dev.regs.pmcntrl
           THEN /\ BiosStatusReg(dev) = BiosStatusReg(pre) \cup {BiosStatusBit(dev.vendor)}
                /\ Called(dev, "acpi_raise_smi") = BiosEnabled(pre)
           ELSE /\ BiosStatusReg(dev) = BiosStatusReg(pre)
                /\ ~Called(dev, "acpi_raise_smi")

\* the release bit was clear before the write and the enable bit set: the
\* status bit is set and the SMI router invoked
C27_Witness ==
    /\ GblRlsWrite
    /\ 2 \notin pre.regs.pmcntrl
    /\ 2 \in dev.regs.pmcntrl
    /\ BiosEnabled(pre)
    /\ BiosStatusBit(dev.vendor) \notin BiosStatusReg(pre)
    /\ BiosStatusBit(dev.vendor) \in BiosStatusReg(dev)
    /\ Called(dev, "acpi_raise_smi")

(***************************************************************************)
(* C28: only the flagged effects are applied.  For every profile and sleep *)
(* type a SLP_EN write calls the NVRAM write only if SUS_NVR is flagged,   *)
(* the PCI device and bus, keyboard and A20 resets only if SUS_RESET_PCI   *)
(* is, the cache flush only if SUS_RESET_CPU or SUS_RESET_CACHE is, and    *)
(* the CPU reset only if SUS_RESET_CPU is.  A sleep type whose entry is    *)
(* empty calls no collaborator, does not pause, schedules no resume and    *)
(* only merges PMCNTRL.  As amended: on ICH2 the write with an empty entry *)
(* still runs the profile's own steps, the SLP_SMI_EN trap before the      *)
(* decode and acpi_update_irq after it.                                    *)
(***************************************************************************)
CalledAny(names) == \E c \in names : Called(dev, c)

FlaggedOnly ==
    /\ Called(dev, "nvr_reg_write") => SUS_NVR \in SleepEntry
    /\ CalledAny({"device_reset_all_pci", "pci_reset", "keyboard_at_reset",
                  "mem_a20_alt", "mem_a20_recalc"}) => SUS_RESET_PCI \in SleepEntry
    /\ Called(dev, "flushmmucache") =>
          SleepEntry \cap {SUS_RESET_CPU, SUS_RESET_CACHE} # {}
    /\ CalledAny({"resetx86", "cpu_alt_reset"}) => SUS_RESET_CPU \in SleepEntry

\* the registers after a write that only merges its byte into PMCNTRL
MergedOnly ==
    [pre.regs EXCEPT !.pmcntrl = MergeByte(@, last.val, 8, PMCNTRL_MASK)]

OnlyMerges == dev = [Begin(pre) EXCEPT !.regs = MergedOnly]

\* the ICH2 trap: SLP_SMI_EN set and bit 2 of the written byte
TrapTaken == SlpSmiEnabled /\ 2 \in last.val

OverflowInterruptOn(d) == 0 \in d.regs.pmen /\ 0 \in d.regs.pmcntrl

OverflowAcknowledged ==
    /\ last.op = "acpi_reg_write"
    /\ last.addr = \H00
    /\ 0 \in last.val
    /\ OverflowInterruptOn(pre)
    /\ 0 \in pre.regs.pmsts

C29_AcknowledgeCycle ==
    /\ (last.op = "acpi_timer_overflow" /\ OverflowInterruptOn(pre)) =>
          /\ 0 \in dev.regs.pmsts
          /\ dev.irq[ModeLine(dev.irq_mode)]
    /\ 0 \in dev.regs.pmsts => ~dev.timer.enabled
    /\ OverflowAcknowledged =>
          /\ 0 \notin dev.regs.pmsts
          /\ dev.timer = [enabled |-> TRUE,
                          period |-> overflow_period(dev.regs.timer32, acpi_clock_get)]
          /\ dev.irq[ModeLine(dev.irq_mode)] = (sci_level(dev) # {})

\* the whole cycle: the overflow had asserted the line, the acknowledge
\* deasserted it and armed the timer again
C29_Witness ==
    /\ OverflowAcknowledged
    /\ pre.irq[ModeLine(pre.irq_mode)]
    /\ ~pre.timer.enabled
    /\ ~dev.irq[ModeLine(dev.irq_mode)]
    /\ dev.timer.enabled
    /\ dev.timer.period # {}

(***************************************************************************)
(* C30: resume liveness.  After any write that runs the suspend sequence   *)
(* the emulation has been paused and the resume timer is pending at 50     *)
(* microseconds.  If pending callbacks are eventually delivered and the    *)
(* CPU eventually leaves SMM, the callback eventually sets PMSTS bit 15    *)
(* and the resume timer eventually becomes idle.                           *)
(***************************************************************************)
SuspendWrite ==
    /\ SleepWrite
    /\ SUS_SUSPEND \in SleepEntry
    /\ SUS_POWER_OFF \notin SleepEntry
    /\ ~TrapTaken

Suspended ==
    /\ Called(dev, "plat_pause")
    /\ dev.resume_timer = [enabled |-> TRUE, delay |-> 50]

ResumeDelivered == last.op = "acpi_timer_resume" /\ 15 \in dev.regs.pmsts

ResumeIdle == ~dev.resume_timer.enabled

C30_ResumeLiveness ==
    /\ [](SuspendWrite => Suspended)
    /\ SuspendWrite ~> ResumeDelivered
    /\ SuspendWrite ~> ResumeIdle

\* the guest had cleared the resume status and suspended; the callback has
\* set the status again outside SMM and the resume timer is idle
C30_Witness ==
    /\ last.op = "acpi_timer_resume"
    /\ pre.resume_timer.enabled
    /\ 15 \notin pre.regs.pmsts
    /\ 15 \in dev.regs.pmsts
    /\ ~in_smm
    /\ ~dev.resume_timer.enabled

(***************************************************************************)
(* C31: power-off has no routing side effects.  On every profile, ICH2     *)
(* included, the write that triggers the platform power-off does not       *)
(* change the state of an IRQ line, does not pulse the SMI, and does not   *)
(* arm, re-arm or cancel the overflow timer or the resume timer.           *)
(***************************************************************************)
\* the last handler was a byte write that called plat_power_off
PowerOffWrite == last.op = "acpi_reg_write" /\ Called(dev, "plat_power_off")

NoRouting ==
    /\ dev.irq = pre.irq
    /\ ~Called(dev, "smi_raise")
    /\ TimerCalls = <<>>
    /\ ~Called(dev, "timer_set_delay_u64")
    /\ dev.timer = pre.timer
    /\ dev.resume_timer = pre.resume_timer

C31_PowerOffNoRouting == PowerOffWrite => NoRouting

(***************************************************************************)
(* C32: status bits are lost only through acknowledge.  On every profile a *)
(* set bit of a status register becomes clear only by a guest write of 1   *)
(* to that bit of that register or by the device reset: no other register  *)
(* write, SMI/SCI routing step or timer callback clears or overwrites a    *)
(* pending status bit.                                                     *)
(***************************************************************************)
\* the bytes the last guest write carried, 0 for any other handler
WrittenBytes ==
    CASE last.op \in {"acpi_reg_write", "acpi_aux_reg_write"} -> 1
      [] last.op \in {"acpi_reg_writew", "acpi_aux_reg_writew"} -> 2
      [] last.op \in {"acpi_reg_writel", "acpi_aux_reg_writel"} -> 4
      [] OTHER -> 0

\* the bits of the status register e the last guest write wrote a 1 to; each
\* byte of the write is decoded at its offset within the window
AcknowledgedBits(e, aux) ==
    IF aux = (last.op \in {"acpi_aux_reg_write", "acpi_aux_reg_writew",
                           "acpi_aux_reg_writel"})
    THEN LET size == IF aux THEN AuxWindowSize(dev.vendor)
                     ELSE WindowSize(dev.vendor)
         IN {b \in 0..(8 * e[3] - 1) :
                \E k \in 0..(WrittenBytes - 1) :
                   /\ (last.addr + k) % size = e[2] + (b \div 8)
                   /\ (8 * k + (b % 8)) \in last.val}
    ELSE {}

LostBits(e) == pre.regs[e[1]] \ dev.regs[e[1]]

LostByAcknowledge(e, aux) ==
    \/ last.op = "acpi_reset"
    \/ LostBits(e) \subseteq AcknowledgedBits(e, aux)

C32_LostOnlyByAcknowledge ==
    /\ \A e \in StatusRegs(dev.vendor) : LostByAcknowledge(e, FALSE)
    /\ \A e \in AuxStatusRegs(dev.vendor) : LostByAcknowledge(e, TRUE)

(***************************************************************************)
(* C33: overflow timer arming invariant.  In every reachable state, after  *)
(* any interleaving of register writes, overflow and resume callbacks,     *)
(* clock-speed changes and resets, if the overflow timer is pending then   *)
(* TMROF_EN is set in PMEN and TMROF_STS is clear in PMSTS.                *)
(***************************************************************************)
C33_ArmedOnlyWhenWanted ==
    dev.timer.enabled => (0 \in dev.regs.pmen /\ 0 \notin dev.regs.pmsts)

(***************************************************************************)
(* C34: IRQ line consistency invariant.  In every reachable state, after   *)
(* any sequence of register writes, timer callbacks and resets, if the     *)
(* device's IRQ line is asserted then the SCI level is non-zero: PMSTS &   *)
(* PMEN & (RTC_EN | PWRBTN_EN | GBL_EN | TMROF_EN) is non-zero or, on SMC, *)
(* BM_STS is set.                                                          *)
(***************************************************************************)
\* the SCI level as the claim words it
SciLevel ==
    ((dev.regs.pmsts \cap dev.regs.pmen) \cap Bits(\H0521))
    \cup (IF dev.vendor = VEN_SMC THEN dev.regs.pmsts \cap Bits(\H0010) ELSE {})

C34_LineImpliesLevel == dev.irq[ModeLine(dev.irq_mode)] => SciLevel # {}

(***************************************************************************)
(* C35: BIOS release implies global status.  On the Intel, VIA, VIA-596B   *)
(* and SMC profiles, in every reachable state, if the BIOS_RLS bit of      *)
(* GLBCTL is set (bit 1 on Intel and VIA, bit 0 on SMC) then GBL_STS       *)
(* (PMSTS bit 5) is set; a guest write that clears GBL_STS also clears     *)
(* BIOS_RLS.                                                               *)
(***************************************************************************)
BiosRelease(d) ==
    \/ d.vendor \in {VEN_INTEL, VEN_VIA, VEN_VIA_596B} /\ 1 \in d.regs.glbctl
    \/ d.vendor = VEN_SMC /\ 0 \in d.regs.glbctl

\* the last handler was a guest write that found GBL_STS set and cleared it
ClearedGlobalStatus ==
    /\ WrittenBytes > 0
    /\ 5 \in pre.regs.pmsts
    /\ 5 \notin dev.regs.pmsts

C35_ReleaseImpliesStatus ==
    /\ BiosRelease(dev) => 5 \in dev.regs.pmsts
    /\ ClearedGlobalStatus => ~BiosRelease(dev)

(***************************************************************************)
(* C36: no SMI storm under lock.  On VIA and VIA-596B, while smi_lock      *)
(* stays set, between two consecutive SMI pulses produced by               *)
(* acpi_raise_smi there is a guest write to offset 0x2d with bit 0 set or  *)
(* a device reset, and nothing else clears smi_active.  Stated over one    *)
(* handler at a time: a pulse leaves smi_active set, under the lock no     *)
(* handler pulses while smi_active is set, and smi_active goes from set to *)
(* clear only in such a write or in the reset.                             *)
(***************************************************************************)
\* the last handler was a guest write that put a 1 into bit 0 of offset 0x2d
SmiAcknowledge ==
    /\ last.op \in {"acpi_reg_write", "acpi_reg_writew", "acpi_reg_writel"}
    /\ \E k \in 0..(WrittenBytes - 1) :
          /\ (last.addr + k) % WindowSize(dev.vendor) = \H2d
          /\ (8 * k) \in last.val

C36_NoSmiStorm ==
    ViaProfile =>
        /\ Pulsed => dev.regs.smi_active
        /\ (Pulsed /\ pre.regs.smi_lock) => ~pre.regs.smi_active
        /\ (pre.regs.smi_active /\ ~dev.regs.smi_active) =>
              (SmiAcknowledge \/ last.op = "acpi_reset")

\* under the lock, an SMI was pulsed and the guest has acknowledged it: the
\* next request may pulse again
C36_Witness ==
    /\ ViaProfile
    /\ SmiAcknowledge
    /\ pre.regs.smi_lock
    /\ dev.regs.smi_lock
    /\ pre.regs.smi_active
    /\ ~dev.regs.smi_active
    /\ 0 \in dev.regs.glbctl

(***************************************************************************)
(* C37: PM1 control register frame.  On every profile the value of         *)
(* PMCNTRL, as read at offsets 0x04 and 0x05, changes only through guest   *)
(* writes decoded to the PMCNTRL offsets 0x04 / 0x05 and through the       *)
(* device reset: writes to any other register offset, timer callbacks and  *)
(* SMI / SCI routing leave it unchanged.                                   *)
(***************************************************************************)
\* what the guest reads at offsets 0x04 and 0x05
ControlRead(d) == <<acpi_reg_read(d, \H04), acpi_reg_read(d, \H05)>>

\* the last handler was a guest write with a byte at offset 0x04 or 0x05
ControlWrite ==
    /\ last.op \in {"acpi_reg_write", "acpi_reg_writew", "acpi_reg_writel"}
    /\ \E k \in 0..(WrittenBytes - 1) :
          (last.addr + k) % WindowSize(dev.vendor) \in {\H04, \H05}

C37_ControlFrame ==
    ControlRead(dev) # ControlRead(pre) =>
        (ControlWrite \/ last.op = "acpi_reset")

(***************************************************************************)
(* C38: sleep-enable is write-only.  In every reachable state and on every *)
(* profile a read of offset 0x05 returns bit 5 (SLP_EN) as 0, whatever was *)
(* last written to PMCNTRL, and a 16-bit read of offset 0x04 returns bit   *)
(* 13 as 0.                                                                *)
(***************************************************************************)
C38_SleepEnableWriteOnly ==
    /\ 5 \notin acpi_reg_read(dev, \H05)
    /\ 13 \notin acpi_reg_readw(dev, \H04)

\* the guest wrote SLP_EN with a sleep type that suspends, the bit went into
\* the register with the rest of the byte, and the reads return the rest
C38_Witness ==
    /\ SleepWrite
    /\ 13 \notin pre.regs.pmcntrl
    /\ 13 \in dev.regs.pmcntrl
    /\ acpi_reg_read(dev, \H05) = ByteOf(dev.regs.pmcntrl, 8) \ {5}
    /\ acpi_reg_read(dev, \H05) # {}
    /\ 0 \in acpi_reg_readw(dev, \H04)

(***************************************************************************)
(* C39: teardown leaves no pending callback.  After acpi_close neither the *)
(* overflow timer nor the resume timer of the device is still scheduled,   *)
(* in every state from which close can be called, a state where a suspend  *)
(* sequence has scheduled the resume timer and it has not yet fired        *)
(* included.                                                               *)
(***************************************************************************)
C39_CloseStopsTimers ==
    last.op = "acpi_close" =>
        /\ ~dev.timer.enabled
        /\ ~dev.resume_timer.enabled

====
